---- MODULE Spec2Model ----
(***************************************************************************)
(* State-machine model of the matching backends of the repository          *)
(* (src/src/indexes/*.py, src/src/text_utils.py).                          *)
(*                                                                         *)
(* Strings are sequences of code points (ord values); Python offsets are   *)
(* 0-based, TLA+ sequences 1-based, so text[i] of the source is text[i+1]  *)
(* here.  A dict is a function whose DOMAIN is its key set.  Every backend *)
(* object is one record variable whose fields carry the source's names.    *)
(* ret holds the last call and what it returned; input remembers what the  *)
(* caller passed to build / add_document (a history variable, read only by *)
(* the properties).                                                        *)
(***************************************************************************)
EXTENDS Integers, Sequences, FiniteSets, TLC

VARIABLES kmp, ac, logsq, sai, kgram, inverted, bloom, digest, trie, engine, input, ret

vars == <<kmp, ac, logsq, sai, kgram, inverted, bloom, digest, trie, engine, input, ret>>

(***************************************************************************)
(* Bounds of the model.                                                    *)
(***************************************************************************)
MaxTextLen == 4
MaxTermLen == 2
MaxAcTextLen == 3
MaxPatternLen == 2
MaxPatterns == 2
MaxConcatLen == 6
MaxLsTextLen == 3
MaxTokens == 2
MaxK == 2
MaxSize == 2
MaxHashes == 2
MaxDocs == 2
MaxFailPatternLen == 3

(***************************************************************************)
(* Strings, dicts and the inputs the callers draw from.                    *)
(***************************************************************************)
DocIds == {"d0", "d1"}

\* 'A', 'a', 'b'
Alphabet == {65, 97, 98}

SeqsUpTo(S, n) == UNION {[1..k -> S] : k \in 0..n}

EmptyDict == <<>>

Get(d, key, default) == IF key \in DOMAIN d THEN d[key] ELSE default

Range(s) == {s[i] : i \in DOMAIN s}

\* str.lower() on one character: the ASCII capitals move to their small
\* letters, every other code point of the model's alphabets is unchanged.
LowerCh(c) == IF c >= 65 /\ c <= 90 THEN c + 32 ELSE c

Lower(s) == [i \in 1..Len(s) |-> LowerCh(s[i])]

\* text[i:j] of Python for 0 <= i, clipped at the end of the text.
Slice(text, i, j) ==
    LET hi == IF j > Len(text) THEN Len(text) ELSE j
    IN  IF i >= hi THEN <<>> ELSE SubSeq(text, i + 1, hi)

\* The 0-based offsets s with text[s:s+len(pat)] == pat.
Occurrences(text, pat) ==
    {s \in 0..(Len(text) - Len(pat)) : SubSeq(text, s + 1, s + Len(pat)) = pat}

IsSubstring(pat, text) == Occurrences(text, pat) # {}

NoCall == [op |-> "none"]

Absent == [constructed |-> FALSE]

(***************************************************************************)
(* KMP (src/src/indexes/array_scan.py)                                     *)
(***************************************************************************)
RECURSIVE KmpLpsLoop(_, _, _, _)
KmpLpsLoop(pat, lps, length, i) ==
    IF i >= Len(pat) THEN lps
    ELSE IF pat[i + 1] = pat[length + 1]
         THEN KmpLpsLoop(pat, [lps EXCEPT ![i + 1] = length + 1], length + 1, i + 1)
         ELSE IF length # 0
              THEN KmpLpsLoop(pat, lps, lps[length], i)
              ELSE KmpLpsLoop(pat, [lps EXCEPT ![i + 1] = 0], length, i + 1)

KMP_kmp_lps(pat) == KmpLpsLoop(pat, [i \in 1..Len(pat) |-> 0], 0, 1)

RECURSIVE KmpAllLoop(_, _, _, _, _, _)
KmpAllLoop(text, pat, lps, i, j, res) ==
    IF i >= Len(text) THEN res
    ELSE IF text[i + 1] = pat[j + 1]
         THEN IF j + 1 = Len(pat)
              THEN KmpAllLoop(text, pat, lps, i + 1, lps[j + 1], Append(res, (i + 1) - (j + 1)))
              ELSE KmpAllLoop(text, pat, lps, i + 1, j + 1, res)
         ELSE IF j # 0
              THEN KmpAllLoop(text, pat, lps, i, lps[j], res)
              ELSE KmpAllLoop(text, pat, lps, i + 1, j, res)

\* The scan restarted at j = 0 after a match: overlapping matches are lost.
RECURSIVE KmpAllLoopRestart(_, _, _, _, _, _)
KmpAllLoopRestart(text, pat, lps, i, j, res) ==
    IF i >= Len(text) THEN res
    ELSE IF text[i + 1] = pat[j + 1]
         THEN IF j + 1 = Len(pat)
              THEN KmpAllLoopRestart(text, pat, lps, i + 1, 0, Append(res, (i + 1) - (j + 1)))
              ELSE KmpAllLoopRestart(text, pat, lps, i + 1, j + 1, res)
         ELSE IF j # 0
              THEN KmpAllLoopRestart(text, pat, lps, i, lps[j], res)
              ELSE KmpAllLoopRestart(text, pat, lps, i + 1, j, res)

KMP_kmp_all_restart(text, pat) == KmpAllLoopRestart(text, pat, KMP_kmp_lps(pat), 0, 0, <<>>)

KMP_kmp_all(text, pat) == KmpAllLoop(text, pat, KMP_kmp_lps(pat), 0, 0, <<>>)

KMP_init == [texts |-> EmptyDict]

KMP_build(documents) ==
    /\ kmp' = [kmp EXCEPT !.texts = [d \in DOMAIN documents |-> Lower(documents[d])]]
    /\ input' = [documents |-> documents]
    /\ ret' = [op |-> "KMP.build"]
    /\ UNCHANGED <<ac, logsq, sai, kgram, inverted, bloom, digest, trie, engine>>

KMP_lookup_term(term, doc_id) ==
    LET pat == Lower(term)
        text == Get(kmp.texts, doc_id, <<>>)
        result == IF pat = <<>> THEN <<>> ELSE KMP_kmp_all(text, pat)
    IN  /\ ret' = [op |-> "KMP.lookup_term", term |-> term, doc_id |-> doc_id,
                   result |-> result]
        /\ UNCHANGED <<kmp, ac, logsq, sai, kgram, inverted, bloom, digest, trie, engine, input>>

\* Corpora handed to a build(documents) call: the empty corpus, one document
\* of up to n characters, or two documents of at most one character each.
RawCorpora(alphabet, n) ==
    {EmptyDict}
    \cup {[d \in {"d0"} |-> t] : t \in SeqsUpTo(alphabet, n)}
    \cup [DocIds -> SeqsUpTo(alphabet, 1)]

KmpCorpora == RawCorpora(Alphabet, MaxTextLen)

KmpTerms == SeqsUpTo(Alphabet, MaxTermLen)

InitKMP ==
    /\ kmp = KMP_init
    /\ ac = Absent /\ logsq = Absent /\ sai = Absent /\ kgram = Absent
    /\ inverted = Absent /\ bloom = Absent /\ digest = Absent /\ trie = Absent /\ engine = Absent
    /\ input = [documents |-> EmptyDict]
    /\ ret = NoCall

NextKMP ==
    \/ \E documents \in KmpCorpora : KMP_build(documents)
    \/ \E term \in KmpTerms, doc_id \in DocIds : KMP_lookup_term(term, doc_id)

SpecKMP == InitKMP /\ [][NextKMP]_vars

\* The lowercased text of a document of the corpus last built ("" when the
\* corpus has no such document).
BuiltText(doc_id) == Lower(Get(input.documents, doc_id, <<>>))

IsList(s) == DOMAIN s = 1..Len(s)

NoDuplicates(s) == \A i, j \in DOMAIN s : s[i] = s[j] => i = j

\* C2: for every built corpus, document and non-empty term, KMP.lookup_term
\* returns exactly the offsets at which the lowercased term occurs in the
\* lowercased document text, every occurrence (overlapping ones included)
\* and each once.
C2_KmpAllOccurrences ==
    (ret.op = "KMP.lookup_term" /\ ret.term # <<>>) =>
        /\ NoDuplicates(ret.result)
        /\ Range(ret.result) = Occurrences(BuiltText(ret.doc_id), Lower(ret.term))

\* The case of C2's example: pattern aa over text aaaa gives [0, 1, 2].
C2_Witness ==
    /\ ret.op = "KMP.lookup_term"
    /\ ret.term = <<97, 97>>
    /\ BuiltText(ret.doc_id) = <<97, 97, 97, 97>>
    /\ ret.result = <<0, 1, 2>>

(***************************************************************************)
(* find_substring_positions (src/src/text_utils.py)                        *)
(***************************************************************************)
\* text.find(pattern, start): the least offset >= start at which pattern
\* occurs, -1 when there is none.
StrFind(text, pattern, start) ==
    LET hits == {s \in Occurrences(text, pattern) : s >= start}
    IN  IF hits = {} THEN -1 ELSE CHOOSE s \in hits : \A t \in hits : s <= t

RECURSIVE FindLoop(_, _, _, _)
FindLoop(text, pattern, start, positions) ==
    LET idx == StrFind(text, pattern, start)
    IN  IF idx = -1 THEN positions
        ELSE FindLoop(text, pattern, idx + 1, Append(positions, idx))

find_substring_positions(text, pattern) ==
    IF pattern = <<>> THEN <<>> ELSE FindLoop(text, pattern, 0, <<>>)

(***************************************************************************)
(* AhoCorasick (src/src/indexes/aho_corasick.py)                           *)
(*                                                                         *)
(* States are numbered from 0 as in the source; goto, fail and out are     *)
(* lists, so the entry of state s is at index s + 1.  goto[s] is a dict    *)
(* iterated in insertion order: a sequence of <<character, state>> pairs.  *)
(***************************************************************************)
None == -1

\* self._goto[state].get(ch)
GotoGet(goto, state, ch) ==
    LET d == goto[state + 1]
        hit == {k \in DOMAIN d : d[k][1] = ch}
    IN  IF hit = {} THEN None ELSE d[CHOOSE k \in hit : TRUE][2]

\* [p.lower() for p in patterns if p]
RECURSIVE AC_lower_patterns(_)
AC_lower_patterns(patterns) ==
    IF patterns = <<>> THEN <<>>
    ELSE IF Head(patterns) = <<>> THEN AC_lower_patterns(Tail(patterns))
         ELSE <<Lower(Head(patterns))>> \o AC_lower_patterns(Tail(patterns))

\* The inner loop of the trie build: the characters pat[k..] of pattern pid
\* inserted from state, then pid appended to the output of the last state.
RECURSIVE AC_insert(_, _, _, _, _)
AC_insert(aut, pat, pid, k, state) ==
    IF k > Len(pat)
    THEN [aut EXCEPT !.out[state + 1] = Append(@, pid)]
    ELSE LET ch == pat[k]
             nxt == GotoGet(aut.goto, state, ch)
         IN  IF nxt = None
             THEN LET new == Len(aut.goto)
                  IN  AC_insert([goto |-> Append([aut.goto EXCEPT ![state + 1] = Append(@, <<ch, new>>)], <<>>),
                                 fail |-> Append(aut.fail, 0),
                                 out  |-> Append(aut.out, <<>>)],
                                pat, pid, k + 1, new)
             ELSE AC_insert(aut, pat, pid, k + 1, nxt)

\* for pid, pat in enumerate(self._patterns); pid counts from 0.
RECURSIVE AC_build_trie(_, _, _)
AC_build_trie(aut, patterns, pid) ==
    IF pid >= Len(patterns) THEN aut
    ELSE AC_build_trie(AC_insert(aut, patterns[pid + 1], pid, 1, 0), patterns, pid + 1)

\* The failure chain is not walked.
AC_fail_walk_none(goto, fail, f, ch) == f

\* while f and ch not in self._goto[f]: f = self._fail[f]
RECURSIVE AC_fail_walk(_, _, _, _)
AC_fail_walk(goto, fail, f, ch) ==
    IF f # 0 /\ GotoGet(goto, f, ch) = None
    THEN AC_fail_walk(goto, fail, fail[f + 1], ch)
    ELSE f

\* self._goto[f].get(ch, 0)
GotoGetOrRoot(goto, f, ch) ==
    IF GotoGet(goto, f, ch) = None THEN 0 ELSE GotoGet(goto, f, ch)

\* The outputs of the failure target are not merged.
AC_merge_outputs_skipped(out, s, target) == out

\* self._out[s].extend(self._out[self._fail[s]])
AC_merge_outputs(out, s, target) == [out EXCEPT ![s + 1] = @ \o out[target + 1]]

\* The body of "for ch, s in self._goto[r].items()" over the children kids
\* of r that are still to visit; returns the automaton and the queue.
RECURSIVE AC_bfs_children(_, _, _, _)
AC_bfs_children(aut, r, kids, q) ==
    IF kids = <<>> THEN [aut |-> aut, q |-> q]
    ELSE LET ch == Head(kids)[1]
             s  == Head(kids)[2]
             f  == AC_fail_walk(aut.goto, aut.fail, aut.fail[r + 1], ch)
             target == GotoGetOrRoot(aut.goto, f, ch)
             fail1  == [aut.fail EXCEPT ![s + 1] = target]
         IN  AC_bfs_children([aut EXCEPT !.fail = fail1,
                                         !.out = AC_merge_outputs(aut.out, s, target)],
                             r, Tail(kids), Append(q, s))

\* while q: r = q.popleft(); ...
RECURSIVE AC_bfs(_, _)
AC_bfs(aut, q) ==
    IF q = <<>> THEN aut
    ELSE LET step == AC_bfs_children(aut, Head(q), aut.goto[Head(q) + 1], Tail(q))
         IN  AC_bfs(step.aut, step.q)

\* The root's children enter the queue with failure link 0.
AC_fail_links(aut) ==
    LET kids == aut.goto[1]
        q0 == [i \in 1..Len(kids) |-> kids[i][2]]
        fail0 == [s \in 1..Len(aut.fail) |->
                    IF (s - 1) \in Range(q0) THEN 0 ELSE aut.fail[s]]
    IN  AC_bfs([aut EXCEPT !.fail = fail0], q0)

AC_init ==
    [doc_texts |-> EmptyDict, goto |-> <<>>, fail |-> <<>>, out |-> <<>>,
     patterns |-> <<>>]

AC_build(documents) ==
    /\ ac' = [ac EXCEPT !.doc_texts = [d \in DOMAIN documents |-> Lower(documents[d])]]
    /\ input' = [input EXCEPT !.documents = documents]
    /\ ret' = [op |-> "AhoCorasick.build"]
    /\ UNCHANGED <<kmp, logsq, sai, kgram, inverted, bloom, digest, trie, engine>>

\* The automaton build_patterns compiles: the trie, then the failure links.
AC_compile(pats) ==
    AC_fail_links(AC_build_trie([goto |-> <<<<>>>>, fail |-> <<0>>, out |-> <<<<>>>>], pats, 0))

\* The pattern lists handed to build_patterns: up to MaxPatterns patterns of
\* up to MaxPatternLen characters (the empty pattern and capitals included),
\* and the list of the automaton-completeness example, ab and bc.
AcPatternPool == SeqsUpTo({97, 98}, MaxPatternLen) \cup {<<65>>, <<65, 98>>}

ExampleAcPatterns == <<<<97, 98>>, <<98, 99>>>>

AcPatternLists == SeqsUpTo(AcPatternPool, MaxPatterns) \cup {ExampleAcPatterns}

\* AC_compile tabulated over the pattern lists of the model (@@ makes the
\* table an explicit function, computed once).
AcCompiled == [P \in AcPatternLists |-> AC_compile(AC_lower_patterns(P))] @@ <<>>

AC_build_patterns(patterns) ==
    LET pats == AC_lower_patterns(patterns)
        aut  == IF patterns \in DOMAIN AcCompiled THEN AcCompiled[patterns]
                ELSE AC_compile(pats)
    IN  /\ ac' = [ac EXCEPT !.patterns = pats, !.goto = aut.goto,
                            !.fail = aut.fail, !.out = aut.out]
        /\ input' = [input EXCEPT !.patterns = patterns]
        /\ ret' = [op |-> "AhoCorasick.build_patterns"]
        /\ UNCHANGED <<kmp, logsq, sai, kgram, inverted, bloom, digest, trie, engine>>

\* The index of the last character is reported in place of the start.
AC_emit_at_end(outs, patterns, i) ==
    [n \in 1..Len(outs) |-> <<patterns[outs[n] + 1], i>>]

\* for pid in self._out[state]: results.append((pat, i - len(pat) + 1))
AC_emit(outs, patterns, i) ==
    [n \in 1..Len(outs) |-> <<patterns[outs[n] + 1], i - Len(patterns[outs[n] + 1]) + 1>>]

\* for i, ch in enumerate(text): ...
RECURSIVE AC_match_loop(_, _, _, _)
AC_match_loop(text, i, state, results) ==
    IF i >= Len(text) THEN results
    ELSE LET ch == text[i + 1]
             walked == AC_fail_walk(ac.goto, ac.fail, state, ch)
             nxt == GotoGetOrRoot(ac.goto, walked, ch)
         IN  AC_match_loop(text, i + 1, nxt,
                           results \o AC_emit(ac.out[nxt + 1], ac.patterns, i))

AC_match(doc_id) ==
    LET text == Get(ac.doc_texts, doc_id, <<>>)
        result == IF text = <<>> \/ ac.patterns = <<>> THEN <<>>
                  ELSE AC_match_loop(text, 0, 0, <<>>)
    IN  /\ ret' = [op |-> "AhoCorasick.match", doc_id |-> doc_id, result |-> result]
        /\ UNCHANGED <<kmp, ac, logsq, sai, kgram, inverted, bloom, digest, trie, engine, input>>

AC_lookup_term(term, doc_id) ==
    LET term_lower == Lower(term)
        text == Get(ac.doc_texts, doc_id, <<>>)
    IN  /\ ret' = [op |-> "AhoCorasick.lookup_term", term |-> term, doc_id |-> doc_id,
                   result |-> find_substring_positions(text, term_lower)]
        /\ UNCHANGED <<kmp, ac, logsq, sai, kgram, inverted, bloom, digest, trie, engine, input>>

\* The corpus of the automaton-completeness example: the text xabcx.
ExampleAcCorpus == [d \in {"d0"} |-> <<120, 97, 98, 99, 120>>]

AcCorpora == RawCorpora(Alphabet, MaxAcTextLen) \cup {ExampleAcCorpus}

InitAC ==
    /\ ac = AC_init
    /\ kmp = Absent /\ logsq = Absent /\ sai = Absent /\ kgram = Absent
    /\ inverted = Absent /\ bloom = Absent /\ digest = Absent /\ trie = Absent /\ engine = Absent
    /\ input = [documents |-> EmptyDict, patterns |-> <<>>]
    /\ ret = NoCall

NextAC ==
    \/ \E documents \in AcCorpora : AC_build(documents)
    \/ \E patterns \in AcPatternLists : AC_build_patterns(patterns)
    \/ \E doc_id \in DocIds : AC_match(doc_id)

SpecAC == InitAC /\ [][NextAC]_vars

\* C1: after build and build_patterns, match(doc_id) reports the pair (p, s)
\* for every non-empty lowercased pattern p of the pattern list and every
\* offset s at which p occurs in the lowercased text of the document,
\* overlapping occurrences and suffixes of longer matches included.
C1_MatchComplete ==
    ret.op = "AhoCorasick.match" =>
        \A n \in DOMAIN input.patterns :
            LET p == Lower(input.patterns[n])
            IN  p # <<>> =>
                    \A s \in Occurrences(BuiltText(ret.doc_id), p) :
                        <<p, s>> \in Range(ret.result)

\* The example of C1: patterns ab and bc on xabcx yield (ab, 1) and (bc, 2).
C1_Witness ==
    /\ ret.op = "AhoCorasick.match"
    /\ input.patterns = ExampleAcPatterns
    /\ input.documents = ExampleAcCorpus
    /\ ret.doc_id = "d0"
    /\ ret.result = << <<<<97, 98>>, 1>>, <<<<98, 99>>, 2>> >>

\* A pattern that is a proper suffix of another pattern's match is reported
\* at the position where the longer match ends.
C1_WitnessSuffix ==
    /\ ret.op = "AhoCorasick.match"
    /\ \E i, j \in DOMAIN ret.result :
          /\ i # j
          /\ Len(ret.result[i][1]) > Len(ret.result[j][1])
          /\ ret.result[i][2] + Len(ret.result[i][1]) = ret.result[j][2] + Len(ret.result[j][1])

(***************************************************************************)
(* Suffix-array construction by rank doubling                              *)
(* (SuffixArrayLogSq._build_suffix_array, suffix_array_logsq.py, and the   *)
(* loop of SuffixArrayIndex._rebuild_suffix_array, suffix_array.py).       *)
(* sa holds 0-based positions; rank and the scratch list are lists indexed *)
(* by position, so the entry of position p is at index p + 1.              *)
(***************************************************************************)
SEPARATOR == 0

UpperSentinel == 65535

\* Python's order on tuples of two ints.
PairLess(p, q) == p[1] < q[1] \/ (p[1] = q[1] /\ p[2] < q[2])

\* Python's order on str: by code point, a proper prefix first.
StrLess(s, t) ==
    \E i \in 1..(Len(t)) :
        /\ \A j \in 1..(i - 1) : j <= Len(s) /\ s[j] = t[j]
        /\ (i > Len(s) \/ s[i] < t[i])

\* list.sort(key=...): a stable sort; x goes behind every element whose key
\* is not greater than its own.
RECURSIVE StableInsert(_, _, _)
StableInsert(sorted, x, key) ==
    IF sorted = <<>> THEN <<x>>
    ELSE LET last == sorted[Len(sorted)]
         IN  IF PairLess(key[x], key[last])
             THEN Append(StableInsert(SubSeq(sorted, 1, Len(sorted) - 1), x, key), last)
             ELSE Append(sorted, x)

RECURSIVE StableSort(_, _)
StableSort(s, key) ==
    IF s = <<>> THEN <<>>
    ELSE StableInsert(StableSort(SubSeq(s, 1, Len(s) - 1), key), s[Len(s)], key)

\* A suffix that ends within k characters gets the highest second key.
LS_pair_end_last(rank, i, k, n) == <<rank[i + 1], IF i + k < n THEN rank[i + k + 1] ELSE UpperSentinel>>

\* (rank[i], rank[i + k] if i + k < n else -1)
LS_pair(rank, i, k, n) == <<rank[i + 1], IF i + k < n THEN rank[i + k + 1] ELSE -1>>

\* Every suffix gets a rank of its own, whatever its pair.
RECURSIVE LS_rank_pass_counting(_, _, _, _, _)
LS_rank_pass_counting(sa, rank, tmp_rank, k, i) ==
    IF i >= Len(sa) THEN tmp_rank
    ELSE LS_rank_pass_counting(sa, rank,
                               [tmp_rank EXCEPT ![sa[i + 1] + 1] = tmp_rank[sa[i] + 1] + 1],
                               k, i + 1)

\* for i in range(1, n): tmp_rank[curr] = tmp_rank[prev] + (curr_pair != prev_pair)
RECURSIVE LS_rank_pass(_, _, _, _, _)
LS_rank_pass(sa, rank, tmp_rank, k, i) ==
    IF i >= Len(sa) THEN tmp_rank
    ELSE LET prev == sa[i]
             curr == sa[i + 1]
             prev_pair == LS_pair(rank, prev, k, Len(sa))
             curr_pair == LS_pair(rank, curr, k, Len(sa))
             bump == IF curr_pair # prev_pair THEN 1 ELSE 0
         IN  LS_rank_pass(sa, rank, [tmp_rank EXCEPT ![curr + 1] = tmp_rank[prev + 1] + bump],
                          k, i + 1)

\* while True: sort, rank, swap rank and tmp_rank, stop or double k.
RECURSIVE LS_doubling(_, _, _, _)
LS_doubling(sa, rank, tmp_rank, k) ==
    LET n == Len(sa)
        sorted == StableSort(sa, [i \in 0..(n - 1) |-> LS_pair(rank, i, k, n)])
        ranked == LS_rank_pass(sorted, rank, [tmp_rank EXCEPT ![sorted[1] + 1] = 0], k, 1)
    IN  IF ranked[sorted[n] + 1] = n - 1 THEN sorted
        ELSE LS_doubling(sorted, ranked, rank, 2 * k)

LS_build_suffix_array(text) ==
    LET n == Len(text)
    IN  IF n = 0 THEN <<>>
        ELSE LS_doubling([i \in 1..n |-> i - 1], text, [i \in 1..n |-> 0], 1)

\* (rank[i], rank[i + k] if i + k < n else -1), suffix_array.py
SAI_pair(rank, i, k, n) == <<rank[i + 1], IF i + k < n THEN rank[i + k + 1] ELSE -1>>

\* for i in range(1, n): tmp[sa[i]] = tmp[sa[i - 1]] + (curr != prev)
RECURSIVE SAI_rank_pass(_, _, _, _, _)
SAI_rank_pass(sa, rank, tmp, k, i) ==
    IF i >= Len(sa) THEN tmp
    ELSE LET prev == SAI_pair(rank, sa[i], k, Len(sa))
             curr == SAI_pair(rank, sa[i + 1], k, Len(sa))
             bump == IF curr # prev THEN 1 ELSE 0
         IN  SAI_rank_pass(sa, rank, [tmp EXCEPT ![sa[i + 1] + 1] = tmp[sa[i] + 1] + bump],
                           k, i + 1)

\* while True: sort, rank, rank = tmp.copy(), stop or double k.
RECURSIVE SAI_doubling(_, _, _, _)
SAI_doubling(sa, rank, tmp, k) ==
    LET n == Len(sa)
        sorted == StableSort(sa, [i \in 0..(n - 1) |-> SAI_pair(rank, i, k, n)])
        tmp1 == SAI_rank_pass(sorted, rank, [tmp EXCEPT ![sorted[1] + 1] = 0], k, 1)
    IN  IF tmp1[sorted[n] + 1] = n - 1 THEN sorted
        ELSE SAI_doubling(sorted, tmp1, tmp1, 2 * k)

\* The construction of _rebuild_suffix_array for a text of n > 0 characters.
SAI_suffix_array(text) ==
    LET n == Len(text)
    IN  SAI_doubling([i \in 1..n |-> i - 1], text, [i \in 1..n |-> 0], 1)

\* A concatenated text: pieces of content characters, a separator after each.
ConcatTexts ==
    {t \in SeqsUpTo({SEPARATOR, 97, 98}, MaxConcatLen) : t # <<>> /\ t[Len(t)] = SEPARATOR}

InitSort ==
    /\ input \in {[text |-> t] : t \in ConcatTexts}
    /\ logsq = [suffix_array |-> <<>>, built |-> FALSE]
    /\ sai = [suffix_array |-> <<>>, built |-> FALSE]
    /\ kmp = Absent /\ ac = Absent /\ kgram = Absent
    /\ inverted = Absent /\ bloom = Absent /\ digest = Absent /\ trie = Absent /\ engine = Absent
    /\ ret = NoCall

LS_sort_text ==
    /\ logsq' = [suffix_array |-> LS_build_suffix_array(input.text), built |-> TRUE]
    /\ ret' = [op |-> "SuffixArrayLogSq._build_suffix_array"]
    /\ UNCHANGED <<kmp, ac, sai, kgram, inverted, bloom, digest, trie, engine, input>>

SAI_sort_text ==
    /\ sai' = [suffix_array |-> SAI_suffix_array(input.text), built |-> TRUE]
    /\ ret' = [op |-> "SuffixArrayIndex._rebuild_suffix_array"]
    /\ UNCHANGED <<kmp, ac, logsq, kgram, inverted, bloom, digest, trie, engine, input>>

NextSort == LS_sort_text \/ SAI_sort_text

SpecSort == InitSort /\ [][NextSort]_vars

Suffix(text, pos) == SubSeq(text, pos + 1, Len(text))

IsSortedSuffixArray(sa, text) ==
    /\ Len(sa) = Len(text)
    /\ Range(sa) = 0..(Len(text) - 1)
    /\ \A i \in 1..(Len(sa) - 1) :
          ~StrLess(Suffix(text, sa[i + 1]), Suffix(text, sa[i]))

\* C3: for every non-empty concatenated text of length n, both suffix-array
\* constructions output the same array, a permutation of 0..n-1 in which
\* suffix(sa[i]) <= suffix(sa[i+1]) for every adjacent pair.
C3_SuffixArraysSortedAndEqual ==
    /\ logsq.built => IsSortedSuffixArray(logsq.suffix_array, input.text)
    /\ sai.built => IsSortedSuffixArray(sai.suffix_array, input.text)
    /\ (logsq.built /\ sai.built) => logsq.suffix_array = sai.suffix_array

\* Both constructions have run on a text that needs more than two rounds of
\* doubling (aaaa and its separator: the ranks are distinct only at k = 4).
C3_Witness ==
    /\ logsq.built /\ sai.built
    /\ input.text = <<97, 97, 97, 97, SEPARATOR>>
    /\ logsq.suffix_array = <<4, 3, 2, 1, 0>>

(***************************************************************************)
(* SuffixArrayLogSq (src/src/indexes/suffix_array_logsq.py)                *)
(*                                                                         *)
(* build iterates documents.items(): the corpus is an ordered mapping, a   *)
(* sequence of <<doc_id, text>> pairs with distinct ids.                   *)
(***************************************************************************)
\* The entry of _position_doc_ids at a separator.
NoneDoc == "None"

DictPut(d, key, value) == [x \in (DOMAIN d) \cup {key} |-> IF x = key THEN value ELSE d[x]]

\* The mapping as a dict, for the properties.
RECURSIVE DictOfItems(_)
DictOfItems(items) ==
    IF items = <<>> THEN EmptyDict
    ELSE DictPut(DictOfItems(SubSeq(items, 1, Len(items) - 1)),
                 items[Len(items)][1], items[Len(items)][2])

LS_init ==
    [doc_texts |-> EmptyDict, text |-> <<>>, suffix_array |-> <<>>,
     position_doc_ids |-> <<>>, position_offsets |-> <<>>]

\* for doc_id, text in documents.items(): ...
RECURSIVE LS_concat(_, _)
LS_concat(items, acc) ==
    IF items = <<>> THEN acc
    ELSE LET doc_id == Head(items)[1]
             text_lower == Lower(Head(items)[2])
         IN  IF text_lower = <<>> THEN LS_concat(Tail(items), acc)
             ELSE LS_concat(Tail(items),
                    [doc_texts |-> DictPut(acc.doc_texts, doc_id, text_lower),
                     text_parts |-> acc.text_parts \o text_lower \o <<SEPARATOR>>,
                     position_docs |-> acc.position_docs
                                       \o [i \in 1..Len(text_lower) |-> doc_id] \o <<NoneDoc>>,
                     position_offsets |-> acc.position_offsets
                                       \o [i \in 1..Len(text_lower) |-> i - 1] \o <<-1>>])

\* The index build(documents) leaves behind.
LS_built(documents) ==
    LET acc == LS_concat(documents, [doc_texts |-> EmptyDict, text_parts |-> <<>>,
                                     position_docs |-> <<>>, position_offsets |-> <<>>])
    IN  IF acc.text_parts = <<>>
        THEN [LS_init EXCEPT !.doc_texts = acc.doc_texts]
        ELSE [doc_texts |-> acc.doc_texts,
              text |-> acc.text_parts,
              suffix_array |-> LS_build_suffix_array(acc.text_parts),
              position_doc_ids |-> acc.position_docs,
              position_offsets |-> acc.position_offsets]

\* _compare_suffix(sa_index, pattern); sa_index counts from 0.
LS_compare_suffix(self, sa_index, pattern) ==
    LET pos == self.suffix_array[sa_index + 1]
        suffix == Slice(self.text, pos, pos + Len(pattern))
    IN  IF suffix = pattern THEN 0
        ELSE IF StrLess(suffix, pattern) THEN -1 ELSE 1

RECURSIVE LS_lower_bound_loop(_, _, _, _)
LS_lower_bound_loop(self, pattern, left, right) ==
    IF left >= right THEN left
    ELSE LET mid == (left + right) \div 2
         IN  IF LS_compare_suffix(self, mid, pattern) < 0
             THEN LS_lower_bound_loop(self, pattern, mid + 1, right)
             ELSE LS_lower_bound_loop(self, pattern, left, mid)

LS_lower_bound(self, pattern) ==
    LS_lower_bound_loop(self, pattern, 0, Len(self.suffix_array))

RECURSIVE LS_upper_bound_loop(_, _, _, _)
LS_upper_bound_loop(self, pattern_upper, left, right) ==
    IF left >= right THEN left
    ELSE LET mid == (left + right) \div 2
         IN  IF LS_compare_suffix(self, mid, pattern_upper) < 0
             THEN LS_upper_bound_loop(self, pattern_upper, mid + 1, right)
             ELSE LS_upper_bound_loop(self, pattern_upper, left, mid)

LS_upper_bound(self, pattern) ==
    LS_upper_bound_loop(self, Append(pattern, UpperSentinel), 0, Len(self.suffix_array))

\* for idx in range(left, right): ...
RECURSIVE LS_collect(_, _, _, _, _)
LS_collect(self, doc_id, idx, right, positions) ==
    IF idx >= right THEN positions
    ELSE LET pos == self.suffix_array[idx + 1]
         IN  LS_collect(self, doc_id, idx + 1, right,
                        IF self.position_doc_ids[pos + 1] = doc_id
                        THEN Append(positions, self.position_offsets[pos + 1])
                        ELSE positions)

LS_lookup(self, term, doc_id) ==
    IF self.suffix_array = <<>> \/ term = <<>> THEN <<>>
    ELSE LET pattern == Lower(term)
             left == LS_lower_bound(self, pattern)
             right == LS_upper_bound(self, pattern)
         IN  IF left = right THEN <<>>
             ELSE LS_collect(self, doc_id, left, right, <<>>)

\* 'A', 'a', 'b' and U+1F600, a character above the upper sentinel.
LsAlphabet == Alphabet \cup {128512}

\* Ordered corpora: none, one document of up to MaxLsTextLen characters, or
\* two documents (in either order) of at most one character each.
LsCorpora ==
    {<<>>}
    \cup {<< <<"d0", t>> >> : t \in SeqsUpTo(LsAlphabet, MaxLsTextLen)}
    \cup UNION {{<< <<d, t>>, <<e, u>> >> : e \in DocIds \ {d},
                                              t \in SeqsUpTo(LsAlphabet, 1),
                                              u \in SeqsUpTo(LsAlphabet, 1)} : d \in DocIds}

\* Terms of content characters (above the separator, below the sentinel).
LsTerms == SeqsUpTo(Alphabet, MaxTermLen)

\* LS_built tabulated over the corpora of the model (computed once).
LsBuiltTable == [c \in LsCorpora |-> LS_built(c)] @@ <<>>

LS_build(documents) ==
    /\ logsq' = LsBuiltTable[documents]
    /\ input' = [documents |-> DictOfItems(documents)]
    /\ ret' = [op |-> "SuffixArrayLogSq.build"]
    /\ UNCHANGED <<kmp, ac, sai, kgram, inverted, bloom, digest, trie, engine>>

LS_lookup_term(term, doc_id) ==
    /\ ret' = [op |-> "SuffixArrayLogSq.lookup_term", term |-> term, doc_id |-> doc_id,
               result |-> LS_lookup(logsq, term, doc_id)]
    /\ UNCHANGED <<kmp, ac, logsq, sai, kgram, inverted, bloom, digest, trie, engine, input>>

InitLS ==
    /\ logsq = LS_init
    /\ kmp = Absent /\ ac = Absent /\ sai = Absent /\ kgram = Absent
    /\ inverted = Absent /\ bloom = Absent /\ digest = Absent /\ trie = Absent /\ engine = Absent
    /\ input = [documents |-> EmptyDict]
    /\ ret = NoCall

NextLS ==
    \/ \E documents \in LsCorpora : LS_build(documents)
    \/ \E term \in LsTerms, doc_id \in DocIds : LS_lookup_term(term, doc_id)

SpecLS == InitLS /\ [][NextLS]_vars

StartsWith(text, prefix) ==
    Len(prefix) <= Len(text) /\ SubSeq(text, 1, Len(prefix)) = prefix

\* C4: after build, for every non-empty term of content characters, the
\* range [_lower_bound, _upper_bound) is exactly the suffix-array entries
\* whose suffix starts with the lowercased term, and lookup_term returns, as
\* a set, exactly the offsets at which the term occurs in the lowercased text
\* of the document.
C4_RangeAndOffsetsExact ==
    (ret.op = "SuffixArrayLogSq.lookup_term" /\ ret.term # <<>>) =>
        LET pattern == Lower(ret.term)
        IN  /\ \A idx \in 0..(Len(logsq.suffix_array) - 1) :
                  (LS_lower_bound(logsq, pattern) <= idx /\ idx < LS_upper_bound(logsq, pattern))
                  <=> StartsWith(Suffix(logsq.text, logsq.suffix_array[idx + 1]), pattern)
            /\ Range(ret.result) = Occurrences(BuiltText(ret.doc_id), pattern)

\* C4 with every document character below the upper sentinel.
LsTextsBelowSentinel ==
    \A d \in DOMAIN input.documents :
        \A i \in DOMAIN input.documents[d] : input.documents[d][i] < UpperSentinel

C4_ExactBelowSentinel == LsTextsBelowSentinel => C4_RangeAndOffsetsExact

(***************************************************************************)
(* KGramIndex (src/src/indexes/kgram_index.py)                             *)
(***************************************************************************)
KG_init(k) == [k |-> k, postings |-> EmptyDict, documents |-> EmptyDict]

\* The keys add_document files a token under: the whole token when it is
\* shorter than k, else each of its k-grams.
KG_grams(token_lower, k) ==
    IF Len(token_lower) < k THEN {token_lower}
    ELSE {SubSeq(token_lower, i + 1, i + k) : i \in 0..(Len(token_lower) - k)}

KG_add_document(self, doc_id, tokens) ==
    LET token_set == {Lower(t) : t \in tokens}
        grams == UNION {KG_grams(t, self.k) : t \in token_set}
    IN  [self EXCEPT
            !.documents = DictPut(self.documents, doc_id, token_set),
            !.postings = [g \in (DOMAIN self.postings) \cup grams |->
                            IF g \in grams
                            THEN Get(self.postings, g, {}) \cup {doc_id}
                            ELSE self.postings[g]]]

\* [term_lower[i : i + k] for i in range(len(term_lower) - k + 1)]
KG_query_grams(term_lower, k) ==
    [n \in 1..(Len(term_lower) - k + 1) |-> SubSeq(term_lower, n, n + k - 1)]

\* The intersection loop: the candidates, or missed for the two early
\* "return set()" (a gram that is not indexed, an empty intersection).
RECURSIVE KG_intersect(_, _, _, _)
KG_intersect(self, query_grams, n, candidates) ==
    IF n > Len(query_grams) THEN [missed |-> FALSE, candidates |-> candidates]
    ELSE LET gram == query_grams[n]
         IN  IF gram \notin DOMAIN self.postings THEN [missed |-> TRUE, candidates |-> {}]
             ELSE LET narrowed == IF n = 1 THEN self.postings[gram]
                                  ELSE candidates \cap self.postings[gram]
                  IN  IF narrowed = {} THEN [missed |-> TRUE, candidates |-> {}]
                      ELSE KG_intersect(self, query_grams, n + 1, narrowed)

\* The verification leaves every candidate in.
KG_verify_all(self, candidates, term_lower) == candidates

\* Phase 2: a candidate stays when some stored token contains the term.
KG_verify(self, candidates, term_lower) ==
    {doc_id \in candidates : \E token \in self.documents[doc_id] : IsSubstring(term_lower, token)}

KG_lookup(self, term) ==
    LET term_lower == Lower(term)
    IN  IF Len(term_lower) < self.k THEN Get(self.postings, term_lower, {})
        ELSE LET found == KG_intersect(self, KG_query_grams(term_lower, self.k), 1, {})
             IN  IF found.missed THEN {}
                 ELSE KG_verify(self, found.candidates, term_lower)

(***************************************************************************)
(* SuffixArrayIndex (src/src/indexes/suffix_array.py)                      *)
(*                                                                         *)
(* _documents is a dict iterated in insertion order: a sequence of         *)
(* <<doc_id, token set>> pairs.  A token set is a Python set, iterated in  *)
(* an order the language does not fix: the rebuild takes any order.        *)
(***************************************************************************)
SAI_init ==
    [documents |-> <<>>, text |-> <<>>, suffix_array |-> <<>>, position_map |-> <<>>,
     needs_rebuild |-> FALSE]

\* self._documents[doc_id] = token_set: a known key keeps its place.
OrderedPut(items, key, value) ==
    IF \E i \in DOMAIN items : items[i][1] = key
    THEN [i \in DOMAIN items |-> IF items[i][1] = key THEN <<key, value>> ELSE items[i]]
    ELSE Append(items, <<key, value>>)

\* add_document leaves the flag as it was.
SAI_add_document_unflagged(self, doc_id, tokens) ==
    [self EXCEPT !.documents = OrderedPut(self.documents, doc_id, tokens)]

SAI_add_document(self, doc_id, tokens) ==
    [self EXCEPT !.documents = OrderedPut(self.documents, doc_id, tokens),
                 !.needs_rebuild = TRUE]

Perms(S) == {p \in [1..Cardinality(S) -> S] : Range(p) = S}

\* The orders in which one rebuild can meet the tokens of each document.
RECURSIVE TokenOrders(_)
TokenOrders(documents) ==
    IF documents = <<>> THEN {<<>>}
    ELSE {<<p>> \o rest : p \in Perms(Head(documents)[2]), rest \in TokenOrders(Tail(documents))}

\* for token in tokens: the characters of token.lower(), then the separator,
\* each position mapped to (doc_id, token).
RECURSIVE SAI_concat_tokens(_, _, _)
SAI_concat_tokens(doc_id, tokens, acc) ==
    IF tokens = <<>> THEN acc
    ELSE LET token == Head(tokens)
             token_lower == Lower(token)
         IN  SAI_concat_tokens(doc_id, Tail(tokens),
                [text_parts |-> acc.text_parts \o token_lower \o <<SEPARATOR>>,
                 position_map |-> acc.position_map
                                  \o [i \in 1..(Len(token_lower) + 1) |-> <<doc_id, token>>]])

\* for doc_id, tokens in self._documents.items(): ...
RECURSIVE SAI_concat(_, _, _)
SAI_concat(documents, order, acc) ==
    IF documents = <<>> THEN acc
    ELSE SAI_concat(Tail(documents), Tail(order),
                    SAI_concat_tokens(Head(documents)[1], Head(order), acc))

SAI_rebuild_suffix_array(self, order) ==
    IF self.documents = <<>>
    THEN [self EXCEPT !.text = <<>>, !.suffix_array = <<>>, !.position_map = <<>>,
                      !.needs_rebuild = FALSE]
    ELSE LET acc == SAI_concat(self.documents, order, [text_parts |-> <<>>, position_map |-> <<>>])
         IN  [self EXCEPT !.text = acc.text_parts,
                          !.position_map = acc.position_map,
                          !.suffix_array = IF acc.text_parts = <<>> THEN <<>>
                                           ELSE SAI_suffix_array(acc.text_parts),
                          !.needs_rebuild = FALSE]

RECURSIVE SAI_search_left_loop(_, _, _, _)
SAI_search_left_loop(self, pattern, left, right) ==
    IF left >= right THEN left
    ELSE LET mid == (left + right) \div 2
             suffix == Suffix(self.text, self.suffix_array[mid + 1])
         IN  IF StrLess(suffix, pattern)
             THEN SAI_search_left_loop(self, pattern, mid + 1, right)
             ELSE SAI_search_left_loop(self, pattern, left, mid)

SAI_binary_search_left(self, pattern) ==
    LET left == SAI_search_left_loop(self, pattern, 0, Len(self.suffix_array))
    IN  IF left < Len(self.suffix_array)
           /\ StartsWith(Suffix(self.text, self.suffix_array[left + 1]), pattern)
        THEN left
        ELSE Len(self.suffix_array)

RECURSIVE SAI_search_right_loop(_, _, _, _)
SAI_search_right_loop(self, pattern_upper, left, right) ==
    IF left >= right THEN left
    ELSE LET mid == (left + right) \div 2
             suffix == Suffix(self.text, self.suffix_array[mid + 1])
         IN  IF StrLess(suffix, pattern_upper)
             THEN SAI_search_right_loop(self, pattern_upper, mid + 1, right)
             ELSE SAI_search_right_loop(self, pattern_upper, left, mid)

SAI_binary_search_right(self, pattern) ==
    SAI_search_right_loop(self, Append(pattern, UpperSentinel), 0, Len(self.suffix_array))

\* candidate_docs as the set of (doc_id, token) pairs met in [left, right).
SAI_candidates(self, left, right) ==
    {self.position_map[self.suffix_array[i + 1] + 1] :
        i \in {j \in left..(right - 1) : self.suffix_array[j + 1] < Len(self.position_map)}}

\* The candidates are reported without looking at their tokens.
SAI_verify_all(candidates, term_lower) == {c[1] : c \in candidates}

\* The token is compared in the case it was added in.
SAI_verify_cased(candidates, term_lower) ==
    {c[1] : c \in {x \in candidates : IsSubstring(term_lower, x[2])}}

\* Verify that term actually appears in the tokens.
SAI_verify(candidates, term_lower) ==
    {c[1] : c \in {x \in candidates : IsSubstring(term_lower, Lower(x[2]))}}

\* lookup_term on an index whose array is current.
SAI_search(self, term) ==
    IF self.suffix_array = <<>> \/ term = <<>> THEN {}
    ELSE LET term_lower == Lower(term)
             left == SAI_binary_search_left(self, term_lower)
         IN  IF left = Len(self.suffix_array) THEN {}
             ELSE SAI_verify(SAI_candidates(self, left, SAI_binary_search_right(self, term_lower)),
                             term_lower)

\* lookup_term: the index it leaves and the set it returns.
SAI_lookup(self, term, order) ==
    LET rebuilt == IF self.needs_rebuild THEN SAI_rebuild_suffix_array(self, order) ELSE self
    IN  [self |-> rebuilt, result |-> SAI_search(rebuilt, term)]

(***************************************************************************)
(* The token indexes take add_document(doc_id, tokens); tokens is given as *)
(* the set that set(tokens) makes of the sequence.                         *)
(***************************************************************************)
TokenSets(pool) == {ts \in SUBSET pool : Cardinality(ts) <= MaxTokens}

\* a, ab, ba, Ab
KgTokens == {<<97>>, <<97, 98>>, <<98, 97>>, <<65, 98>>}

\* The empty term, a, b, B, ab, ba, aba.
KgTerms == {<<>>, <<97>>, <<98>>, <<66>>, <<97, 98>>, <<98, 97>>, <<97, 98, 97>>}

InitKGram ==
    /\ kgram \in {KG_init(k) : k \in 1..MaxK}
    /\ kmp = Absent /\ ac = Absent /\ logsq = Absent /\ sai = Absent
    /\ inverted = Absent /\ bloom = Absent /\ digest = Absent /\ trie = Absent /\ engine = Absent
    /\ input = [documents |-> EmptyDict]
    /\ ret = NoCall

KGram_add_document(doc_id, tokens) ==
    /\ kgram' = KG_add_document(kgram, doc_id, tokens)
    /\ input' = [documents |-> DictPut(input.documents, doc_id, tokens)]
    /\ ret' = [op |-> "KGramIndex.add_document"]
    /\ UNCHANGED <<kmp, ac, logsq, sai, inverted, bloom, digest, trie, engine>>

KGram_lookup_term(term) ==
    /\ ret' = [op |-> "KGramIndex.lookup_term", term |-> term, result |-> KG_lookup(kgram, term)]
    /\ UNCHANGED <<kmp, ac, logsq, sai, kgram, inverted, bloom, digest, trie, engine, input>>

NextKGram ==
    \/ \E doc_id \in DocIds, tokens \in TokenSets(KgTokens) : KGram_add_document(doc_id, tokens)
    \/ \E term \in KgTerms : KGram_lookup_term(term)

SpecKGram == InitKGram /\ [][NextKGram]_vars

\* Ab, ba, and a followed by U+1F600, a character above the upper sentinel.
SaiTokens == {<<65, 98>>, <<98, 97>>, <<97, 128512>>}

\* The empty term, a, b, B, ab, and a with the separator behind it.
SaiTerms == {<<>>, <<97>>, <<98>>, <<66>>, <<97, 98>>, <<97, SEPARATOR>>}

InitSAI ==
    /\ sai = SAI_init
    /\ kmp = Absent /\ ac = Absent /\ logsq = Absent /\ kgram = Absent
    /\ inverted = Absent /\ bloom = Absent /\ digest = Absent /\ trie = Absent /\ engine = Absent
    /\ input = [documents |-> EmptyDict]
    /\ ret = NoCall

SuffixArrayIndex_add_document(doc_id, tokens) ==
    /\ sai' = SAI_add_document(sai, doc_id, tokens)
    /\ input' = [documents |-> DictPut(input.documents, doc_id, tokens)]
    /\ ret' = [op |-> "SuffixArrayIndex.add_document"]
    /\ UNCHANGED <<kmp, ac, logsq, kgram, inverted, bloom, digest, trie, engine>>

SuffixArrayIndex_lookup_term(term) ==
    \E order \in TokenOrders(sai.documents) :
        LET done == SAI_lookup(sai, term, order)
        IN  /\ sai' = done.self
            /\ ret' = [op |-> "SuffixArrayIndex.lookup_term", term |-> term,
                       result |-> done.result]
            /\ UNCHANGED <<kmp, ac, logsq, kgram, inverted, bloom, digest, trie, engine, input>>

NextSAI ==
    \/ \E doc_id \in DocIds, tokens \in TokenSets(SaiTokens) :
          SuffixArrayIndex_add_document(doc_id, tokens)
    \/ \E term \in SaiTerms : SuffixArrayIndex_lookup_term(term)

SpecSAI == InitSAI /\ [][NextSAI]_vars

(***************************************************************************)
(* The two substring indexes loaded with the same documents, each document *)
(* id once (the corpus readers number the documents).                      *)
(***************************************************************************)
InitSubstr ==
    /\ kgram \in {KG_init(k) : k \in 1..MaxK}
    /\ sai = SAI_init
    /\ kmp = Absent /\ ac = Absent /\ logsq = Absent
    /\ inverted = Absent /\ bloom = Absent /\ digest = Absent /\ trie = Absent /\ engine = Absent
    /\ input = [documents |-> EmptyDict]
    /\ ret = NoCall

Substr_add_document(doc_id, tokens) ==
    /\ doc_id \notin DOMAIN input.documents
    /\ kgram' = KG_add_document(kgram, doc_id, tokens)
    /\ sai' = SAI_add_document(sai, doc_id, tokens)
    /\ input' = [documents |-> DictPut(input.documents, doc_id, tokens)]
    /\ ret' = [op |-> "add_document"]
    /\ UNCHANGED <<kmp, ac, logsq, inverted, bloom, digest, trie, engine>>

\* ab, ba, Ab
SubstrTokens == {<<97, 98>>, <<98, 97>>, <<65, 98>>}

\* The empty term, a, B, ab, aba.
SubstrTerms == {<<>>, <<97>>, <<66>>, <<97, 98>>, <<97, 98, 97>>}

NextSubstr ==
    \/ \E doc_id \in DocIds, tokens \in TokenSets(SubstrTokens) :
          Substr_add_document(doc_id, tokens)
    \/ \E term \in SubstrTerms : KGram_lookup_term(term)
    \/ \E term \in SubstrTerms : SuffixArrayIndex_lookup_term(term)

SpecSubstr == InitSubstr /\ [][NextSubstr]_vars

\* The documents with a stored token (the tokens of the last add_document of
\* each id) that contains the lowercased term as a substring.
DocsContaining(term) ==
    {d \in DOMAIN input.documents :
        \E token \in input.documents[d] : IsSubstring(Lower(term), Lower(token))}

\* C5: after any sequence of add_document calls, SuffixArrayIndex.lookup_term
\* of a non-empty term returns exactly the doc ids that have a stored token
\* containing the lowercased term as a substring.
C5_SuffixArrayIndexExact ==
    (ret.op = "SuffixArrayIndex.lookup_term" /\ ret.term # <<>>) =>
        ret.result = DocsContaining(ret.term)

\* C6: for the same add_document calls and every non-empty query,
\* KGramIndex.lookup_term and SuffixArrayIndex.lookup_term return identical
\* document sets, for every gram length k.
C6_SubstringBackendsAgree ==
    (ret.op = "KGramIndex.lookup_term" /\ ret.term # <<>>) =>
        \A order \in TokenOrders(sai.documents) :
            ret.result = SAI_lookup(sai, ret.term, order).result

\* C10: for every term of length >= k, KGramIndex.lookup_term returns exactly
\* the documents having a stored token that contains the lowercased term as
\* a substring.
C10_KGramExactFromK ==
    (ret.op = "KGramIndex.lookup_term" /\ Len(ret.term) >= kgram.k) =>
        ret.result = DocsContaining(ret.term)

\* A document whose tokens ab and ba together hold both grams of aba (k = 2)
\* is a candidate and is dropped by the verification.
C10_Witness ==
    /\ ret.op = "KGramIndex.lookup_term"
    /\ kgram.k = 2
    /\ ret.term = <<97, 98, 97>>
    /\ "d0" \in DOMAIN kgram.documents
    /\ kgram.documents["d0"] = {<<97, 98>>, <<98, 97>>}
    /\ "d0" \in KG_intersect(kgram, KG_query_grams(ret.term, 2), 1, {}).candidates
    /\ ret.result = {}

\* A document is found through a token stored with a capital.
C10_WitnessFound ==
    /\ ret.op = "KGramIndex.lookup_term"
    /\ ret.term = <<97, 98>>
    /\ Len(ret.term) >= kgram.k
    /\ \E d \in DOMAIN input.documents : input.documents[d] = {<<65, 98>>} /\ d \in ret.result

(***************************************************************************)
(* InvertedIndex (src/src/indexes/inverted.py)                             *)
(***************************************************************************)
INV_init == [postings |-> EmptyDict]

INV_add_document(self, doc_id, tokens) ==
    LET token_set == {Lower(t) : t \in tokens}
    IN  [self EXCEPT
            !.postings = [t \in (DOMAIN self.postings) \cup token_set |->
                            IF t \in token_set
                            THEN Get(self.postings, t, {}) \cup {doc_id}
                            ELSE self.postings[t]]]

INV_lookup(self, term) == Get(self.postings, Lower(term), {})

(***************************************************************************)
(* BloomFilterIndex (src/src/indexes/bloom_filter.py)                      *)
(*                                                                         *)
(* digest is int(md5(f"{term}:{seed}").hexdigest(), 16): a function of     *)
(* term and seed that never changes, taken here as any function, so that   *)
(* every pattern of collisions is met.                                     *)
(***************************************************************************)
BL_init(size, num_hashes) ==
    [size |-> size, num_hashes |-> num_hashes,
     bits |-> [i \in 0..(size - 1) |-> FALSE], documents |-> EmptyDict]

BL_hash(self, term, seed) == digest[<<term, seed>>] % self.size

\* The bits one token sets, or one term is looked up under.
BL_positions(self, term) == {BL_hash(self, term, i) : i \in 0..(self.num_hashes - 1)}

\* The bit array is filled anew from the tokens of this document.
BL_add_document_fresh(self, doc_id, tokens) ==
    LET hashed == UNION {BL_positions(self, token) : token \in tokens}
    IN  [self EXCEPT !.documents = DictPut(self.documents, doc_id, tokens),
                     !.bits = [i \in DOMAIN self.bits |-> i \in hashed]]

BL_add_document(self, doc_id, tokens) ==
    LET hashed == UNION {BL_positions(self, token) : token \in tokens}
    IN  [self EXCEPT !.documents = DictPut(self.documents, doc_id, tokens),
                     !.bits = [i \in DOMAIN self.bits |-> self.bits[i] \/ i \in hashed]]

\* Phase 1: some hashed bit is unset.
BL_definitely_absent(self, term) == \E i \in BL_positions(self, term) : ~self.bits[i]

\* Every document is reported.
BL_scan_all(self, term) == DOMAIN self.documents

\* Phase 2: the documents whose token set holds the term.
BL_scan(self, term) == {doc_id \in DOMAIN self.documents : term \in self.documents[doc_id]}

BL_lookup(self, term) ==
    IF BL_definitely_absent(self, term) THEN {} ELSE BL_scan(self, term)

\* Ab, ab, b: the tokens and the terms.
ExactStrings == {<<65, 98>>, <<97, 98>>, <<98>>}

Digests ==
    UNION {{[size |-> size, num_hashes |-> num_hashes, digest |-> h] :
              h \in [ExactStrings \X (0..(num_hashes - 1)) -> 0..(size - 1)]} :
           size \in 1..MaxSize, num_hashes \in 1..MaxHashes}

BloomFilterIndex_add_document(doc_id, tokens) ==
    /\ bloom' = BL_add_document(bloom, doc_id, tokens)
    /\ input' = [documents |-> DictPut(input.documents, doc_id, tokens)]
    /\ ret' = [op |-> "BloomFilterIndex.add_document"]
    /\ UNCHANGED <<kmp, ac, logsq, sai, kgram, inverted, digest, trie, engine>>

BloomFilterIndex_lookup_term(term) ==
    /\ ret' = [op |-> "BloomFilterIndex.lookup_term", term |-> term,
               fast |-> BL_definitely_absent(bloom, term),
               result |-> BL_lookup(bloom, term)]
    /\ bloom' = bloom
    /\ UNCHANGED <<kmp, ac, logsq, sai, kgram, inverted, digest, trie, engine, input>>

InitBloom ==
    /\ \E c \in Digests : /\ bloom = BL_init(c.size, c.num_hashes)
                          /\ digest = c.digest
    /\ kmp = Absent /\ ac = Absent /\ logsq = Absent /\ sai = Absent /\ kgram = Absent
    /\ inverted = Absent
    /\ trie = Absent /\ engine = Absent
    /\ input = [documents |-> EmptyDict]
    /\ ret = NoCall

NextBloom ==
    \/ \E doc_id \in DocIds, tokens \in TokenSets(ExactStrings) :
          BloomFilterIndex_add_document(doc_id, tokens)
    \/ \E term \in ExactStrings : BloomFilterIndex_lookup_term(term)

SpecBloom == InitBloom /\ [][NextBloom]_vars

(***************************************************************************)
(* The two exact-term indexes loaded with the same documents, each         *)
(* document id once.                                                       *)
(***************************************************************************)
InitExact ==
    /\ \E c \in Digests : /\ bloom = BL_init(c.size, c.num_hashes)
                          /\ digest = c.digest
    /\ inverted = INV_init
    /\ trie = Absent /\ engine = Absent
    /\ kmp = Absent /\ ac = Absent /\ logsq = Absent /\ sai = Absent /\ kgram = Absent
    /\ input = [documents |-> EmptyDict]
    /\ ret = NoCall

Exact_add_document(doc_id, tokens) ==
    /\ doc_id \notin DOMAIN input.documents
    /\ inverted' = INV_add_document(inverted, doc_id, tokens)
    /\ bloom' = BL_add_document(bloom, doc_id, tokens)
    /\ input' = [documents |-> DictPut(input.documents, doc_id, tokens)]
    /\ ret' = [op |-> "add_document"]
    /\ UNCHANGED <<kmp, ac, logsq, sai, kgram, digest, trie, engine>>

InvertedIndex_lookup_term(term) ==
    /\ ret' = [op |-> "InvertedIndex.lookup_term", term |-> term,
               result |-> INV_lookup(inverted, term)]
    /\ UNCHANGED <<kmp, ac, logsq, sai, kgram, inverted, bloom, digest, trie, engine, input>>

NextExact ==
    \/ \E doc_id \in DocIds, tokens \in TokenSets(ExactStrings) :
          Exact_add_document(doc_id, tokens)
    \/ \E term \in ExactStrings : InvertedIndex_lookup_term(term)
    \/ \E term \in ExactStrings : BloomFilterIndex_lookup_term(term)

SpecExact == InitExact /\ [][NextExact]_vars

\* The brute-force scan: the documents having the term among their tokens.
DocsHolding(term) == {d \in DOMAIN input.documents : term \in input.documents[d]}

\* C7: over documents with distinct ids, for every exact-term query,
\* InvertedIndex.lookup_term and BloomFilterIndex.lookup_term return the same
\* set, and that set is the brute-force scan of the tokens.
C7_ExactBackendsAgree ==
    ret.op \in {"InvertedIndex.lookup_term", "BloomFilterIndex.lookup_term"} =>
        /\ INV_lookup(inverted, ret.term) = BL_lookup(bloom, ret.term)
        /\ ret.result = DocsHolding(ret.term)

\* C8: across add_document and lookup_term calls a set bit is never cleared,
\* and lookup_term changes no bit.
C8_BitsOnlyGrow ==
    [][/\ \A i \in DOMAIN bloom.bits : bloom.bits[i] => bloom'.bits[i]
       /\ ret'.op = "BloomFilterIndex.lookup_term" => bloom'.bits = bloom.bits]_vars

\* A document was added again with other tokens: a bit is set that no stored
\* token hashes to, next to a bit still unset.
C8_Witness ==
    /\ ret.op = "BloomFilterIndex.add_document"
    /\ \E i \in DOMAIN bloom.bits :
          /\ bloom.bits[i]
          /\ \A d \in DOMAIN bloom.documents :
                \A token \in bloom.documents[d] : i \notin BL_positions(bloom, token)
    /\ \E i \in DOMAIN bloom.bits : ~bloom.bits[i]

\* C9: BloomFilterIndex.lookup_term returns exactly the documents whose stored
\* token set contains the term; the fast negative path is taken only when no
\* stored document contains the term.
C9_BloomLookupExact ==
    ret.op = "BloomFilterIndex.lookup_term" =>
        /\ ret.result = DocsHolding(ret.term)
        /\ ret.fast => DocsHolding(ret.term) = {}

\* Every bit of the term is set by other tokens, documents are stored, and
\* the scan reports none of them.
C9_Witness ==
    /\ ret.op = "BloomFilterIndex.lookup_term"
    /\ ~ret.fast
    /\ DOMAIN bloom.documents = DocIds
    /\ ret.result = {}

\* The fast negative path is taken while documents are stored.
C9_WitnessFast ==
    /\ ret.op = "BloomFilterIndex.lookup_term"
    /\ ret.fast
    /\ bloom.documents # EmptyDict

(***************************************************************************)
(* TrieIndex (src/src/indexes/trie.py)                                     *)
(*                                                                         *)
(* A TrieNode is named by the characters on the path from the root; the    *)
(* trie is the function from the paths of its nodes to their doc_ids.      *)
(***************************************************************************)
NoNode == <<-1>>

TR_init == [root |-> (<<>> :> {})]

\* for char in token: create the missing child, step down.
RECURSIVE TR_insert_walk(_, _, _)
TR_insert_walk(nodes, token, n) ==
    IF n > Len(token) THEN nodes
    ELSE LET child == SubSeq(token, 1, n)
         IN  TR_insert_walk(IF child \in DOMAIN nodes THEN nodes ELSE nodes @@ (child :> {}),
                            token, n + 1)

TR_insert_token(nodes, token, doc_id) ==
    LET walked == TR_insert_walk(nodes, token, 1)
    IN  [walked EXCEPT ![token] = @ \cup {doc_id}]

RECURSIVE TR_insert_all(_, _, _)
TR_insert_all(nodes, tokens, doc_id) ==
    IF tokens = {} THEN nodes
    ELSE LET token == CHOOSE t \in tokens : TRUE
         IN  TR_insert_all(TR_insert_token(nodes, token, doc_id), tokens \ {token}, doc_id)

TR_add_document(self, doc_id, tokens) ==
    [self EXCEPT !.root = TR_insert_all(self.root, tokens, doc_id)]

RECURSIVE TR_find_walk(_, _, _)
TR_find_walk(nodes, prefix, n) ==
    IF n > Len(prefix) THEN prefix
    ELSE IF SubSeq(prefix, 1, n) \notin DOMAIN nodes THEN NoNode
         ELSE TR_find_walk(nodes, prefix, n + 1)

TR_find_node(self, prefix) == TR_find_walk(self.root, prefix, 1)

TR_children(nodes, node) ==
    {c \in DOMAIN nodes : Len(c) = Len(node) + 1 /\ SubSeq(c, 1, Len(node)) = node}

\* The subtree is left out.
TR_collect_node_only(nodes, node) == nodes[node]

RECURSIVE TR_collect_all_docs(_, _)
TR_collect_all_docs(nodes, node) ==
    nodes[node] \cup UNION {TR_collect_all_docs(nodes, child) : child \in TR_children(nodes, node)}

TR_lookup(self, term) ==
    LET node == TR_find_node(self, term)
    IN  IF node = NoNode THEN {} ELSE TR_collect_all_docs(self.root, node)

\* The empty token, a, ab, ba, A.
TrieTokens == {<<>>, <<97>>, <<97, 98>>, <<98, 97>>, <<65>>}

\* The empty term, a, b, ab, A, abb.
TrieTerms == {<<>>, <<97>>, <<98>>, <<97, 98>>, <<65>>, <<97, 98, 98>>}

\* input.added: every token a document id was ever added with.
InitTrie ==
    /\ trie = TR_init
    /\ kmp = Absent /\ ac = Absent /\ logsq = Absent /\ sai = Absent /\ kgram = Absent
    /\ inverted = Absent /\ bloom = Absent /\ digest = Absent /\ engine = Absent
    /\ input = [added |-> EmptyDict]
    /\ ret = NoCall

TrieIndex_add_document(doc_id, tokens) ==
    /\ trie' = TR_add_document(trie, doc_id, tokens)
    /\ input' = [added |-> DictPut(input.added, doc_id, Get(input.added, doc_id, {}) \cup tokens)]
    /\ ret' = [op |-> "TrieIndex.add_document"]
    /\ UNCHANGED <<kmp, ac, logsq, sai, kgram, inverted, bloom, digest, engine>>

TrieIndex_lookup_term(term) ==
    /\ ret' = [op |-> "TrieIndex.lookup_term", term |-> term, result |-> TR_lookup(trie, term)]
    /\ UNCHANGED <<kmp, ac, logsq, sai, kgram, inverted, bloom, digest, engine, trie, input>>

NextTrie ==
    \/ \E doc_id \in DocIds, tokens \in TokenSets(TrieTokens) : TrieIndex_add_document(doc_id, tokens)
    \/ \E term \in TrieTerms : TrieIndex_lookup_term(term)

SpecTrie == InitTrie /\ [][NextTrie]_vars

\* C11: after any sequence of add_document calls, TrieIndex.lookup_term
\* returns exactly the documents added with a token that starts with the
\* prefix, and the empty set when a character of the prefix has no edge.
C11_TriePrefixExact ==
    ret.op = "TrieIndex.lookup_term" =>
        /\ ret.result = {d \in DOMAIN input.added :
                            \E token \in input.added[d] : StartsWith(token, ret.term)}
        /\ (\E n \in 1..Len(ret.term) : SubSeq(ret.term, 1, n) \notin DOMAIN trie.root)
              => ret.result = {}

\* The prefix a reaches a node without doc ids of its own next to d0 and
\* collects d1 from the node of ab below it.
C11_Witness ==
    /\ ret.op = "TrieIndex.lookup_term"
    /\ ret.term = <<97>>
    /\ <<97, 98>> \in DOMAIN trie.root
    /\ "d1" \notin trie.root[<<97>>]
    /\ "d1" \in trie.root[<<97, 98>>]
    /\ ret.result = {"d0", "d1"}

\* The walk falls off a trie that holds documents.
C11_WitnessFallsOff ==
    /\ ret.op = "TrieIndex.lookup_term"
    /\ ret.term = <<97, 98, 98>>
    /\ <<97, 98>> \in DOMAIN trie.root
    /\ ret.result = {}

(***************************************************************************)
(* SearchEngine (src/src/engine.py) over one of the three Matcher          *)
(* backends.  The backend instance lives in kmp, logsq or ac;              *)
(* engine.index names which.  _documents is a dict iterated in insertion   *)
(* order: a sequence of <<doc_id, text>> pairs (the Document objects).     *)
(* Strings, match_mode included, are sequences of code points.             *)
(***************************************************************************)
KMP_built(self, documents) ==
    [self EXCEPT !.texts = [d \in DOMAIN documents |-> Lower(documents[d])]]

KMP_lookup(self, term, doc_id) ==
    LET pat == Lower(term)
    IN  IF pat = <<>> THEN <<>> ELSE KMP_kmp_all(Get(self.texts, doc_id, <<>>), pat)

AC_built(self, documents) ==
    [self EXCEPT !.doc_texts = [d \in DOMAIN documents |-> Lower(documents[d])]]

AC_lookup(self, term, doc_id) ==
    find_substring_positions(Get(self.doc_texts, doc_id, <<>>), Lower(term))

Backends == {"KMP", "SuffixArrayLogSq", "AhoCorasick"}

NoneArg == "None"

SE_init(index) ==
    [index |-> index, documents |-> <<>>, normalized_texts |-> EmptyDict, built |-> FALSE]

\* for doc_id, raw_text in documents: ...
RECURSIVE SE_build_loop(_, _)
SE_build_loop(documents, acc) ==
    IF documents = <<>> THEN acc
    ELSE LET doc_id == Head(documents)[1]
             text == Head(documents)[2]
         IN  SE_build_loop(Tail(documents),
                [text_map |-> OrderedPut(acc.text_map, doc_id, text),
                 documents |-> OrderedPut(acc.documents, doc_id, text),
                 normalized_texts |-> DictPut(acc.normalized_texts, doc_id, Lower(text))])

\* The loop starts from the dicts of the build before.
SE_build_kept(self, documents) ==
    SE_build_loop(documents, [text_map |-> self.documents, documents |-> self.documents,
                              normalized_texts |-> self.normalized_texts])

\* The dicts build fills: _documents, _normalized_texts and text_map.
SE_build(self, documents) ==
    SE_build_loop(documents, [text_map |-> <<>>, documents |-> <<>>,
                              normalized_texts |-> EmptyDict])

Space == 32

\* str.split(): the maximal runs of characters that are not whitespace.
RECURSIVE SE_split(_, _, _)
SE_split(text, word, tokens) ==
    IF text = <<>> THEN (IF word = <<>> THEN tokens ELSE Append(tokens, word))
    ELSE IF Head(text) = Space
         THEN SE_split(Tail(text), <<>>, IF word = <<>> THEN tokens ELSE Append(tokens, word))
         ELSE SE_split(Tail(text), Append(word, Head(text)), tokens)

ModeAnd == <<97, 110, 100>>

ModeOr == <<111, 114>>

\* self._index.lookup_term(token, doc_id)
IndexLookup(index, token, doc_id) ==
    CASE index = "KMP" -> KMP_lookup(kmp, token, doc_id)
      [] index = "SuffixArrayLogSq" -> LS_lookup(logsq, token, doc_id)
      [] index = "AhoCorasick" -> AC_lookup(ac, token, doc_id)

\* all([...]) over a list: every token is looked up before the test.
RECURSIVE SE_all_eager(_, _, _, _, _)
SE_all_eager(self, tokens, doc_id, i, calls) ==
    IF i > Len(tokens)
    THEN [value |-> \A j \in DOMAIN tokens : IndexLookup(self.index, tokens[j], doc_id) # <<>>,
          calls |-> calls]
    ELSE SE_all_eager(self, tokens, doc_id, i + 1, Append(calls, <<tokens[i], doc_id>>))

\* all(self._index.lookup_term(token, doc_id) for token in tokens): the
\* generator is consumed up to the first empty result.  calls is the log of
\* the lookup_term calls made, as (token, doc_id) pairs.
RECURSIVE SE_all(_, _, _, _, _)
SE_all(self, tokens, doc_id, i, calls) ==
    IF i > Len(tokens) THEN [value |-> TRUE, calls |-> calls]
    ELSE LET made == Append(calls, <<tokens[i], doc_id>>)
         IN  IF IndexLookup(self.index, tokens[i], doc_id) = <<>>
             THEN [value |-> FALSE, calls |-> made]
             ELSE SE_all(self, tokens, doc_id, i + 1, made)

\* any(self._index.lookup_term(token, doc_id) for token in tokens): the
\* generator is consumed up to the first non-empty result.
RECURSIVE SE_any(_, _, _, _, _)
SE_any(self, tokens, doc_id, i, calls) ==
    IF i > Len(tokens) THEN [value |-> FALSE, calls |-> calls]
    ELSE LET made == Append(calls, <<tokens[i], doc_id>>)
         IN  IF IndexLookup(self.index, tokens[i], doc_id) # <<>>
             THEN [value |-> TRUE, calls |-> made]
             ELSE SE_any(self, tokens, doc_id, i + 1, made)

\* Every mode is taken as or.
RECURSIVE SE_match_tokens_any(_, _, _, _, _)
SE_match_tokens_any(self, tokens, match_mode, n, matching) ==
    IF n > Len(self.documents) THEN matching
    ELSE LET doc_id == self.documents[n][1]
             hit == \E i \in DOMAIN tokens : IndexLookup(self.index, tokens[i], doc_id) # <<>>
         IN  SE_match_tokens_any(self, tokens, match_mode, n + 1,
                                 IF hit THEN Append(matching, doc_id) ELSE matching)

\* for doc_id in self._documents: ...
RECURSIVE SE_match_tokens(_, _, _, _, _)
SE_match_tokens(self, tokens, match_mode, n, matching) ==
    IF n > Len(self.documents) THEN matching
    ELSE LET doc_id == self.documents[n][1]
             hit == IF match_mode = ModeAnd
                    THEN SE_all(self, tokens, doc_id, 1, <<>>).value
                    ELSE SE_any(self, tokens, doc_id, 1, <<>>).value
         IN  SE_match_tokens(self, tokens, match_mode, n + 1,
                             IF hit THEN Append(matching, doc_id) ELSE matching)

\* The lookup_term calls of the loop of _match_tokens, in the order made.
RECURSIVE SE_match_calls(_, _, _, _, _)
SE_match_calls(self, tokens, match_mode, n, calls) ==
    IF n > Len(self.documents) THEN calls
    ELSE LET doc_id == self.documents[n][1]
         IN  SE_match_calls(self, tokens, match_mode, n + 1,
                            IF match_mode = ModeAnd
                            THEN SE_all(self, tokens, doc_id, 1, calls).calls
                            ELSE SE_any(self, tokens, doc_id, 1, calls).calls)

\* [self._documents[doc_id] for doc_id in matching_ids if doc_id in self._documents]
SE_documents_of(self, matching_ids) ==
    LET known == SelectSeq(matching_ids, LAMBDA d : \E i \in DOMAIN self.documents :
                                                       self.documents[i][1] = d)
    IN  [n \in DOMAIN known |->
            self.documents[CHOOSE i \in DOMAIN self.documents : self.documents[i][1] = known[n]]]

Returned(result) == [raised |-> "none", result |-> result, calls |-> <<>>]

Raising(error) == [raised |-> error, result |-> <<>>, calls |-> <<>>]

\* The check of _built is left out.
SE_check_built_skipped(self) == TRUE

SE_check_built(self) == self.built

SE_search(self, query, match_mode, doc_id) ==
    IF ~SE_check_built(self) THEN Raising("RuntimeError")
    ELSE LET tokens == SE_split(Lower(query), <<>>, <<>>)
         IN  IF tokens = <<>> THEN Returned(<<>>)
             ELSE IF Lower(match_mode) \notin {ModeAnd, ModeOr} THEN Raising("ValueError")
             ELSE IF doc_id # NoneArg
                  THEN IF doc_id \notin DOMAIN self.normalized_texts THEN Returned(<<>>)
                       ELSE Returned(find_substring_positions(self.normalized_texts[doc_id],
                                                              Lower(query)))
                  ELSE [Returned(SE_documents_of(self,
                           SE_match_tokens(self, tokens, Lower(match_mode), 1, <<>>)))
                           EXCEPT !.calls = SE_match_calls(self, tokens, Lower(match_mode),
                                                           1, <<>>)]

\* The texts of the engine corpora: "a b" and "Ab".
EngineTexts == {<<97, Space, 98>>, <<65, 98>>}

\* build(documents): up to MaxDocs (doc_id, raw_text) pairs, ids may repeat.
EngineCorpora == SeqsUpTo(DocIds \X EngineTexts, MaxDocs)

\* "", " ", "a", "A b", "ab x"
EngineQueries == {<<>>, <<Space>>, <<97>>, <<65, Space, 98>>, <<97, 98, Space, 120>>}

\* "and", "OR", "x"
EngineModes == {ModeAnd, <<79, 82>>, <<120>>}

EnginePatternLists == {<<>>, <<<<97>>>>, <<<<97, 98>>, <<98>>>>}

EngineTerms == {<<>>, <<97>>}

\* LS_built tabulated over the text maps of the engine corpora.
EngineLsTable ==
    [c \in {SE_build(SE_init("SuffixArrayLogSq"), documents).text_map :
               documents \in EngineCorpora} |-> LS_built(c)] @@ <<>>

\* input.corpus: the argument of the last build; input.earlier: the ids of
\* the builds before it; input.patterns: the argument of the last
\* build_patterns.
InitEngine ==
    /\ \E index \in Backends :
          /\ engine = SE_init(index)
          /\ kmp = IF index = "KMP" THEN KMP_init ELSE Absent
          /\ logsq = IF index = "SuffixArrayLogSq" THEN LS_init ELSE Absent
          /\ ac = IF index = "AhoCorasick" THEN AC_init ELSE Absent
    /\ sai = Absent /\ kgram = Absent /\ inverted = Absent /\ bloom = Absent
    /\ digest = Absent /\ trie = Absent
    /\ input = [corpus |-> <<>>, earlier |-> {}, patterns |-> <<>>]
    /\ ret = NoCall

SearchEngine_build(documents) ==
    LET acc == SE_build(engine, documents)
        text_map == DictOfItems(acc.text_map)
    IN  /\ engine' = [engine EXCEPT !.documents = acc.documents,
                                    !.normalized_texts = acc.normalized_texts,
                                    !.built = TRUE]
        /\ kmp' = IF engine.index = "KMP" THEN KMP_built(kmp, text_map) ELSE kmp
        /\ logsq' = IF engine.index # "SuffixArrayLogSq" THEN logsq
                    ELSE IF acc.text_map \in DOMAIN EngineLsTable
                         THEN EngineLsTable[acc.text_map]
                         ELSE LS_built(acc.text_map)
        /\ ac' = IF engine.index = "AhoCorasick" THEN AC_built(ac, text_map) ELSE ac
        /\ input' = [input EXCEPT !.corpus = documents,
                                  !.earlier = @ \cup {input.corpus[i][1] : i \in DOMAIN input.corpus}]
        /\ ret' = [op |-> "SearchEngine.build"]
        /\ UNCHANGED <<sai, kgram, inverted, bloom, digest, trie>>

SearchEngine_search(query, match_mode, doc_id) ==
    LET done == SE_search(engine, query, match_mode, doc_id)
    IN  /\ ret' = [op |-> "SearchEngine.search", query |-> query, match_mode |-> match_mode,
                   doc_id |-> doc_id, raised |-> done.raised, result |-> done.result,
                   calls |-> done.calls]
        /\ UNCHANGED <<kmp, ac, logsq, sai, kgram, inverted, bloom, digest, trie, engine, input>>

NextEngine ==
    \/ \E documents \in EngineCorpora : SearchEngine_build(documents)
    \/ \E query \in EngineQueries, match_mode \in EngineModes, doc_id \in {NoneArg, "d0"} :
          SearchEngine_search(query, match_mode, doc_id)
    \/ engine.index = "KMP" /\ \E term \in EngineTerms, doc_id \in DocIds :
                                   KMP_lookup_term(term, doc_id)
    \/ engine.index = "SuffixArrayLogSq" /\ \E term \in EngineTerms, doc_id \in DocIds :
                                                LS_lookup_term(term, doc_id)
    \/ engine.index = "AhoCorasick" /\ \E term \in EngineTerms, doc_id \in DocIds :
                                           AC_lookup_term(term, doc_id)
    \/ engine.index = "AhoCorasick" /\ \E patterns \in EnginePatternLists :
                                           AC_build_patterns(patterns)
    \/ engine.index = "AhoCorasick" /\ \E doc_id \in DocIds : AC_match(doc_id)

SpecEngine == InitEngine /\ [][NextEngine]_vars

\* What the last build was given: its ids, the text given last for an id,
\* and the place at which an id came first.
CorpusIds == {input.corpus[i][1] : i \in DOMAIN input.corpus}

LastText(d) ==
    LET last == CHOOSE i \in DOMAIN input.corpus :
                    /\ input.corpus[i][1] = d
                    /\ \A j \in DOMAIN input.corpus : input.corpus[j][1] = d => j <= i
    IN  input.corpus[last][2]

FirstPlace(d) ==
    CHOOSE i \in DOMAIN input.corpus :
        /\ input.corpus[i][1] = d
        /\ \A j \in DOMAIN input.corpus : input.corpus[j][1] = d => i <= j

\* The whitespace-separated tokens of a query: its maximal runs without a
\* space.
QueryTokens(query) ==
    {SubSeq(query, i, j) : i \in DOMAIN query, j \in DOMAIN query} \cap
    {w \in SeqsUpTo(Range(query) \ {Space}, Len(query)) : w # <<>>} \cap
    {w \in SeqsUpTo(Range(query), Len(query)) :
        \E i \in DOMAIN query :
            /\ i + Len(w) - 1 <= Len(query)
            /\ SubSeq(query, i, i + Len(w) - 1) = w
            /\ (i = 1 \/ query[i - 1] = Space)
            /\ (i + Len(w) - 1 = Len(query) \/ query[i + Len(w)] = Space)}

\* A document matches when every (and) or some (or) token has a non-empty
\* lookup_term result of the backend in it.
DocMatches(d, tokens, mode) ==
    IF mode = ModeAnd
    THEN \A t \in tokens : IndexLookup(engine.index, t, d) # <<>>
    ELSE \E t \in tokens : IndexLookup(engine.index, t, d) # <<>>

\* The result lists, each once and in build insertion order, exactly the
\* matching documents.
SearchResultIsMatching ==
    LET tokens == QueryTokens(Lower(ret.query))
        mode == Lower(ret.match_mode)
    IN  /\ \A i, j \in DOMAIN ret.result :
              i < j => FirstPlace(ret.result[i][1]) < FirstPlace(ret.result[j][1])
        /\ {ret.result[i][1] : i \in DOMAIN ret.result}
              = {d \in CorpusIds : DocMatches(d, tokens, mode)}
        /\ \A i \in DOMAIN ret.result : ret.result[i][2] = LastText(ret.result[i][1])

SearchWithoutDocId ==
    /\ ret.op = "SearchEngine.search"
    /\ ret.raised = "none"
    /\ ret.doc_id = NoneArg
    /\ Lower(ret.match_mode) \in {ModeAnd, ModeOr}

\* C12 as stated: on a built engine, search without doc_id returns, each once
\* and in build insertion order, exactly the documents in which every (and)
\* or at least one (or) query token has a non-empty backend lookup_term
\* result.
C12_SearchMatchesTokens == SearchWithoutDocId => SearchResultIsMatching

\* C12 for a query with at least one token; a query without tokens returns
\* the empty list in both modes.
C12_SearchMatchesTokensOfQuery ==
    SearchWithoutDocId =>
        IF QueryTokens(Lower(ret.query)) = {} THEN ret.result = <<>>
        ELSE SearchResultIsMatching

\* In and mode the token x matches no document while ab matches one: the
\* result is empty.
C12_Witness ==
    /\ SearchWithoutDocId
    /\ ret.query = <<97, 98, Space, 120>>
    /\ Lower(ret.match_mode) = ModeAnd
    /\ \E d \in CorpusIds : IndexLookup(engine.index, <<97, 98>>, d) # <<>>
    /\ ret.result = <<>>

\* In or mode two documents are returned in insertion order.
C12_WitnessOr ==
    /\ SearchWithoutDocId
    /\ Lower(ret.match_mode) = ModeOr
    /\ Len(ret.result) = 2

\* C13: search before any build has completed raises an error, whatever the
\* query, match_mode and doc_id, and returns nothing; after a build it no
\* longer raises this error.
C13_SearchBeforeBuildRaises ==
    ret.op = "SearchEngine.search" =>
        /\ ~engine.built => (ret.raised = "RuntimeError" /\ ret.result = <<>>)
        /\ engine.built => ret.raised # "RuntimeError"

\* Before build, the empty query with an invalid mode raises.
C13_Witness ==
    /\ ret.op = "SearchEngine.search"
    /\ ~engine.built
    /\ ret.query = <<>>
    /\ ret.match_mode = <<120>>
    /\ ret.raised = "RuntimeError"

\* The error a call raised ("none" for a call that returned).
Raised(r) == IF "raised" \in DOMAIN r THEN r.raised ELSE "none"

\* C14: a lookup_term or match on a backend that has never been built (match
\* also: whose patterns have never been built) fails with a not-built signal.
C14_BackendBeforeBuildFails ==
    (\/ /\ ret.op \in {"KMP.lookup_term", "SuffixArrayLogSq.lookup_term",
                       "AhoCorasick.lookup_term", "AhoCorasick.match"}
        /\ ~engine.built
     \/ /\ ret.op = "AhoCorasick.match"
        /\ ac.goto = <<>>)
    => Raised(ret) # "none"

\* C15: on a built engine, a match_mode that is not and / or (compared
\* case-insensitively) raises ValueError for every query.
C15_InvalidModeRaises ==
    (/\ ret.op = "SearchEngine.search"
     /\ engine.built
     /\ Lower(ret.match_mode) \notin {ModeAnd, ModeOr})
    => ret.raised = "ValueError"

\* C16: after a build the engine and its backend are those of a fresh
\* instance given the last corpus only, and after a build_patterns the
\* automaton is the one compiled from the last pattern list only.
C16_RebuildReplaces ==
    LET texts == [d \in CorpusIds |-> Lower(LastText(d))]
        fresh == SE_build(SE_init(engine.index), input.corpus)
    IN  /\ engine.built =>
              /\ {engine.documents[i][1] : i \in DOMAIN engine.documents} = CorpusIds
              /\ \A i \in DOMAIN engine.documents :
                    /\ engine.documents[i][2] = LastText(engine.documents[i][1])
                    /\ \A j \in DOMAIN engine.documents :
                          i < j => FirstPlace(engine.documents[i][1])
                                      < FirstPlace(engine.documents[j][1])
              /\ engine.normalized_texts = texts
              /\ engine.index = "KMP" => kmp = [texts |-> texts]
              /\ engine.index = "SuffixArrayLogSq" => logsq = LS_built(fresh.text_map)
              /\ engine.index = "AhoCorasick" => ac.doc_texts = texts
        /\ (engine.index = "AhoCorasick" /\ ac.goto # <<>>) =>
              LET pats == AC_lower_patterns(input.patterns)
                  aut == AC_compile(pats)
              IN  /\ ac.patterns = pats
                  /\ ac.goto = aut.goto /\ ac.fail = aut.fail /\ ac.out = aut.out

\* d1 was in an earlier build and is not in the last one; a search that d1
\* would match returns d0 alone.
C16_Witness ==
    /\ ret.op = "SearchEngine.search"
    /\ "d1" \in input.earlier
    /\ CorpusIds = {"d0"}
    /\ ret.raised = "none"
    /\ ret.doc_id = NoneArg
    /\ Len(ret.result) = 1

(***************************************************************************)
(* SuffixArrayIndex: the lazy rebuild under add_document, lookup_term and  *)
(* get_statistics.                                                         *)
(***************************************************************************)
RECURSIVE SumOfSizes(_, _)
SumOfSizes(documents, n) ==
    IF n > Len(documents) THEN 0
    ELSE Cardinality(documents[n][2]) + SumOfSizes(documents, n + 1)

\* get_statistics: the index it leaves and the dict it returns.
SAI_get_statistics(self, order) ==
    LET rebuilt == IF self.needs_rebuild THEN SAI_rebuild_suffix_array(self, order) ELSE self
    IN  [self |-> rebuilt,
         result |-> [num_documents |-> Len(rebuilt.documents),
                     text_length |-> Len(rebuilt.text),
                     suffix_array_length |-> Len(rebuilt.suffix_array),
                     num_unique_tokens |-> SumOfSizes(rebuilt.documents, 1)]]

SuffixArrayIndex_get_statistics ==
    \E order \in TokenOrders(sai.documents) :
        LET done == SAI_get_statistics(sai, order)
        IN  /\ sai' = done.self
            /\ ret' = [op |-> "SuffixArrayIndex.get_statistics", result |-> done.result]
            /\ UNCHANGED <<kmp, ac, logsq, kgram, inverted, bloom, digest, trie, engine, input>>

\* ab, abb, b
LazyTokens == {<<97, 98>>, <<97, 98, 98>>, <<98>>}

\* The empty term, ab, bb.
LazyTerms == {<<>>, <<97, 98>>, <<98, 98>>}

NextLazy ==
    \/ \E doc_id \in DocIds, tokens \in TokenSets(LazyTokens) :
          SuffixArrayIndex_add_document(doc_id, tokens)
    \/ \E term \in LazyTerms : SuffixArrayIndex_lookup_term(term)
    \/ SuffixArrayIndex_get_statistics

SpecLazy == InitSAI /\ [][NextLazy]_vars

\* C17: under any interleaving of add_document, lookup_term and
\* get_statistics, a lookup or statistics call leaves the flag clear, every
\* lookup answers over all documents added so far, and whenever the flag is
\* clear the text, position map and suffix array have the same length and
\* are the ones built from the current document set.
C17_LazyRebuild ==
    /\ DictOfItems(sai.documents) = input.documents
    /\ ret.op \in {"SuffixArrayIndex.lookup_term", "SuffixArrayIndex.get_statistics"}
          => ~sai.needs_rebuild
    /\ (ret.op = "SuffixArrayIndex.lookup_term" /\ ret.term # <<>>)
          => ret.result = DocsContaining(ret.term)
    /\ ret.op = "SuffixArrayIndex.get_statistics"
          => /\ ret.result.num_documents = Cardinality(DOMAIN input.documents)
             /\ ret.result.text_length = Len(sai.text)
             /\ ret.result.suffix_array_length = Len(sai.text)
    /\ ~sai.needs_rebuild =>
          /\ Len(sai.text) = Len(sai.position_map)
          /\ Len(sai.text) = Len(sai.suffix_array)
          /\ \E order \in TokenOrders(sai.documents) :
                sai = SAI_rebuild_suffix_array(sai, order)

\* The array is that of d0 alone, d1 has been added since, and the flag is
\* set: the state the next lookup or statistics call starts from.
C17_WitnessStale ==
    /\ ret.op = "SuffixArrayIndex.add_document"
    /\ sai.needs_rebuild
    /\ sai.text = <<97, 98, SEPARATOR>>
    /\ DOMAIN input.documents = DocIds
    /\ input.documents["d1"] = {<<97, 98, 98>>}

\* The example: ab in d0, abb in d1, and the lookup of ab finds both.
C17_Witness ==
    /\ ret.op = "SuffixArrayIndex.lookup_term"
    /\ ret.term = <<97, 98>>
    /\ sai.documents = << <<"d0", {<<97, 98>>}>>, <<"d1", {<<97, 98, 98>>}>> >>
    /\ Len(sai.text) = 7
    /\ ret.result = {"d0", "d1"}

\* The lookups that return a list of offsets, and those that return a set
\* of documents.
OffsetLookups == {"KMP.lookup_term", "SuffixArrayLogSq.lookup_term", "AhoCorasick.lookup_term"}

DocumentLookups ==
    {"InvertedIndex.lookup_term", "BloomFilterIndex.lookup_term", "KGramIndex.lookup_term",
     "TrieIndex.lookup_term", "SuffixArrayIndex.lookup_term"}

\* C18: for every backend and after any build or add_document sequence, a
\* lookup with the empty term returns an empty collection.
C18_EmptyTermNeverMatches ==
    /\ (ret.op \in OffsetLookups /\ ret.term = <<>>) => ret.result = <<>>
    /\ (ret.op \in DocumentLookups /\ ret.term = <<>>) => ret.result = {}

(***************************************************************************)
(* BloomFilterIndex and KGramIndex constructed with any configuration, a   *)
(* hash count or a gram length of zero included (the bit array keeps at    *)
(* least one bit).                                                         *)
(***************************************************************************)
ConfigValues == {0, 1}

InitConfig ==
    /\ \/ /\ \E size \in 1..MaxSize, num_hashes \in ConfigValues :
                /\ bloom = BL_init(size, num_hashes)
                /\ digest \in [ExactStrings \X (0..(num_hashes - 1)) -> 0..(size - 1)]
          /\ kgram = Absent
       \/ /\ \E k \in ConfigValues : kgram = KG_init(k)
          /\ bloom = Absent /\ digest = Absent
    /\ kmp = Absent /\ ac = Absent /\ logsq = Absent /\ sai = Absent
    /\ inverted = Absent /\ trie = Absent /\ engine = Absent
    /\ input = [documents |-> EmptyDict]
    /\ ret = NoCall

NextConfig ==
    \/ bloom # Absent /\ \E doc_id \in DocIds, tokens \in TokenSets(ExactStrings) :
                            BloomFilterIndex_add_document(doc_id, tokens)
    \/ bloom # Absent /\ \E term \in ExactStrings : BloomFilterIndex_lookup_term(term)
    \/ kgram # Absent /\ \E doc_id \in DocIds, tokens \in TokenSets(KgTokens) :
                            KGram_add_document(doc_id, tokens)
    \/ kgram # Absent /\ \E term \in KgTerms : KGram_lookup_term(term)

SpecConfig == InitConfig /\ [][NextConfig]_vars

\* C19: no add_document or lookup_term runs on a BloomFilterIndex with
\* size <= 0 or num_hashes <= 0, nor on a KGramIndex with k <= 0: the
\* constructor has rejected it.
C19_NonPositiveConfigRejected ==
    /\ ret.op \in {"BloomFilterIndex.add_document", "BloomFilterIndex.lookup_term"}
          => (bloom.size > 0 /\ bloom.num_hashes > 0)
    /\ ret.op \in {"KGramIndex.add_document", "KGramIndex.lookup_term"} => kgram.k > 0

(***************************************************************************)
(* KGramIndex and SuffixArrayIndex next to a second instance of each that  *)
(* is given the same documents with every token in lower case              *)
(* (input.lowered_kgram, input.lowered_sai); each document id once.        *)
(***************************************************************************)
\* ab, AB, Ba
CaseTokens == {<<97, 98>>, <<65, 66>>, <<66, 97>>}

\* a, B, ab, aB, BA
CaseTerms == {<<97>>, <<66>>, <<97, 98>>, <<97, 66>>, <<66, 65>>}

\* The spellings of a string that differ in letter case only.
CaseVariants(s) ==
    {v \in [DOMAIN s -> {65, 66, 97, 98}] : \A i \in DOMAIN s : LowerCh(v[i]) = LowerCh(s[i])}

InitCase ==
    /\ \E k \in 1..MaxK :
          /\ kgram = KG_init(k)
          /\ input = [documents |-> EmptyDict, lowered_kgram |-> KG_init(k),
                      lowered_sai |-> SAI_init]
    /\ sai = SAI_init
    /\ kmp = Absent /\ ac = Absent /\ logsq = Absent
    /\ inverted = Absent /\ bloom = Absent /\ digest = Absent
    /\ trie = Absent /\ engine = Absent
    /\ ret = NoCall

Case_add_document(doc_id, tokens) ==
    LET lowered == {Lower(t) : t \in tokens}
    IN  /\ doc_id \notin DOMAIN input.documents
        /\ kgram' = KG_add_document(kgram, doc_id, tokens)
        /\ sai' = SAI_add_document(sai, doc_id, tokens)
        /\ input' = [documents |-> DictPut(input.documents, doc_id, tokens),
                     lowered_kgram |-> KG_add_document(input.lowered_kgram, doc_id, lowered),
                     lowered_sai |-> SAI_add_document(input.lowered_sai, doc_id, lowered)]
        /\ ret' = [op |-> "add_document"]
        /\ UNCHANGED <<kmp, ac, logsq, inverted, bloom, digest, trie, engine>>

NextCase ==
    \/ \E doc_id \in DocIds, tokens \in TokenSets(CaseTokens) : Case_add_document(doc_id, tokens)
    \/ \E term \in CaseTerms : KGram_lookup_term(term)
    \/ \E term \in CaseTerms : SuffixArrayIndex_lookup_term(term)

SpecCase == InitCase /\ [][NextCase]_vars

\* C20: lookup_term of KGramIndex and of SuffixArrayIndex returns the same
\* set for every case variant of the term, and the same set as on the
\* instance that was given the tokens in lower case.
C20_CaseInsensitive ==
    /\ ret.op = "KGramIndex.lookup_term" =>
          \A v \in CaseVariants(ret.term) :
              /\ KG_lookup(kgram, v) = ret.result
              /\ KG_lookup(input.lowered_kgram, v) = ret.result
    /\ ret.op = "SuffixArrayIndex.lookup_term" =>
          \A v \in CaseVariants(ret.term) :
              /\ \A order \in TokenOrders(sai.documents) :
                    SAI_lookup(sai, v, order).result = ret.result
              /\ \A order \in TokenOrders(input.lowered_sai.documents) :
                    SAI_lookup(input.lowered_sai, v, order).result = ret.result

\* The token AB is found by the term aB in the suffix array index.
C20_Witness ==
    /\ ret.op = "SuffixArrayIndex.lookup_term"
    /\ ret.term = <<97, 66>>
    /\ "d0" \in DOMAIN input.documents
    /\ input.documents["d0"] = {<<65, 66>>}
    /\ ret.result = {"d0"}

\* The token Ba is found by the term BA in the k-gram index.
C20_WitnessKGram ==
    /\ ret.op = "KGramIndex.lookup_term"
    /\ ret.term = <<66, 65>>
    /\ "d0" \in DOMAIN input.documents
    /\ input.documents["d0"] = {<<66, 97>>}
    /\ ret.result = {"d0"}

(***************************************************************************)
(* KGramIndex queries shorter than k (src/src/indexes/kgram_index.py:72-77)*)
(***************************************************************************)

\* C21: for every non-empty term with len(term) < k, KGramIndex.lookup_term
\* returns every document that has a stored token containing the term as a
\* substring.
C21_ShortQueryFindsSubstrings ==
    (ret.op = "KGramIndex.lookup_term" /\ ret.term # <<>> /\ Len(ret.term) < kgram.k) =>
        DocsContaining(ret.term) \subseteq ret.result

(***************************************************************************)
(* SearchEngine._match_tokens: the lookup_term calls of one search         *)
(* (src/src/engine.py:61-71)                                               *)
(***************************************************************************)

\* The lookup of token i of the search decides document d: it is empty in
\* and mode, non-empty in or mode.
Decides(tokens, mode, i, d) ==
    IF mode = ModeAnd THEN IndexLookup(engine.index, tokens[i], d) = <<>>
    ELSE IndexLookup(engine.index, tokens[i], d) # <<>>

\* The number of tokens looked up for document d: up to the first deciding
\* token, all of them when none decides.
LookedUp(tokens, mode, d) ==
    IF \E i \in DOMAIN tokens : Decides(tokens, mode, i, d)
    THEN CHOOSE i \in DOMAIN tokens :
            /\ Decides(tokens, mode, i, d)
            /\ \A j \in 1..(i - 1) : ~Decides(tokens, mode, j, d)
    ELSE Len(tokens)

\* C22: the lookup_term calls of a search visit the documents in build
\* insertion order, and for each document they are the query tokens in
\* query order up to and including the first token whose result is empty
\* (and mode) or non-empty (or mode): no call is made for the document after
\* it.
C22_LazyTokenEvaluation ==
    (SearchWithoutDocId /\ QueryTokens(Lower(ret.query)) # {}) =>
        LET tokens == SE_split(Lower(ret.query), <<>>, <<>>)
            mode == Lower(ret.match_mode)
        IN  /\ \A c, e \in DOMAIN ret.calls :
                  c < e => FirstPlace(ret.calls[c][2]) <= FirstPlace(ret.calls[e][2])
            /\ {ret.calls[c][2] : c \in DOMAIN ret.calls} = CorpusIds
            /\ \A d \in CorpusIds :
                  SelectSeq(ret.calls, LAMBDA call : call[2] = d)
                     = [i \in 1..LookedUp(tokens, mode, d) |-> <<tokens[i], d>>]

\* In and mode the query "ab x" over two documents: d1 holds "a b", where ab
\* has no occurrence, and gets one call; d0 holds "Ab" and gets both.
C22_Witness ==
    /\ SearchWithoutDocId
    /\ Lower(ret.match_mode) = ModeAnd
    /\ ret.query = <<97, 98, Space, 120>>
    /\ input.corpus = <<<<"d1", <<97, Space, 98>>>>, <<"d0", <<65, 98>>>>>>
    /\ ret.calls = <<<<<<97, 98>>, "d1">>, <<<<97, 98>>, "d0">>, <<<<120>>, "d0">>>>

\* In or mode the query "A b" over "a b": the first token is found and the
\* second is not looked up.
C22_WitnessOr ==
    /\ SearchWithoutDocId
    /\ Lower(ret.match_mode) = ModeOr
    /\ ret.query = <<65, Space, 98>>
    /\ input.corpus = <<<<"d0", <<97, Space, 98>>>>>>
    /\ ret.calls = <<<<<<97>>, "d0">>>>

(***************************************************************************)
(* AhoCorasick.build_patterns: the failure links                           *)
(* (src/src/indexes/aho_corasick.py:56-73)                                 *)
(***************************************************************************)

\* Pattern lists of up to MaxPatterns patterns of up to MaxFailPatternLen
\* characters over a and b, the pattern aB with a capital, and the list
\* aab, ab, b in which a state has two suffixes in the trie.
FailPatternPool == SeqsUpTo({97, 98}, MaxFailPatternLen) \cup {<<97, 66>>}

FailPatternLists ==
    SeqsUpTo(FailPatternPool, MaxPatterns) \cup {<<<<97, 97, 98>>, <<97, 98>>, <<98>>>>}

NextFail == \E patterns \in FailPatternLists : AC_build_patterns(patterns)

SpecFail == InitAC /\ [][NextFail]_vars

\* The path of a state: the characters on the trie edges from the root.
RECURSIVE PathOf(_, _)
PathOf(goto, s) ==
    IF s = 0 THEN <<>>
    ELSE LET r == CHOOSE r \in 0..(Len(goto) - 1) :
                     \E k \in DOMAIN goto[r + 1] : goto[r + 1][k][2] = s
             k == CHOOSE k \in DOMAIN goto[r + 1] : goto[r + 1][k][2] = s
         IN  Append(PathOf(goto, r), goto[r + 1][k][1])

ProperSuffixes(p) == {SubSeq(p, i, Len(p)) : i \in 2..(Len(p) + 1)}

Prefixes(p) == {SubSeq(p, 1, i) : i \in 0..Len(p)}

\* C23: after build_patterns the states are the prefixes of the patterns,
\* the failure link of the root is the root, and the failure link of every
\* other state is the state of the longest proper suffix of its path that is
\* a path in the trie (the root when only the empty suffix is), a strictly
\* shallower state.
C23_FailureLinks ==
    ac.goto # <<>> =>
        LET states == 0..(Len(ac.goto) - 1)
            path == [s \in states |-> PathOf(ac.goto, s)]
        IN  /\ Len(ac.fail) = Len(ac.goto)
            /\ \A s, t \in states : path[s] = path[t] => s = t
            /\ {path[s] : s \in states}
                  = UNION {Prefixes(ac.patterns[n]) : n \in DOMAIN ac.patterns} \cup {<<>>}
            /\ ac.fail[1] = 0
            /\ \A s \in states \ {0} :
                  LET inTrie == {t \in states : path[t] \in ProperSuffixes(path[s])}
                  IN  /\ ac.fail[s + 1] \in inTrie
                      /\ \A t \in inTrie : Len(path[t]) <= Len(path[ac.fail[s + 1]])
                      /\ Len(path[ac.fail[s + 1]]) < Len(path[s])

\* The state of aab has the suffixes ab and b in the trie; its failure link
\* is the state of ab, whose failure link is the state of b.
C23_Witness ==
    /\ ret.op = "AhoCorasick.build_patterns"
    /\ input.patterns = <<<<97, 97, 98>>, <<97, 98>>, <<98>>>>
    /\ \E s, t, u \in 1..(Len(ac.goto) - 1) :
          /\ PathOf(ac.goto, s) = <<97, 97, 98>>
          /\ PathOf(ac.goto, t) = <<97, 98>>
          /\ PathOf(ac.goto, u) = <<98>>
          /\ ac.fail[s + 1] = t
          /\ ac.fail[t + 1] = u
          /\ ac.fail[u + 1] = 0

\* The failure chain is walked: with aab and b the link of aab is found
\* past the state of a, which has no edge for b.
C23_WitnessWalk ==
    /\ ret.op = "AhoCorasick.build_patterns"
    /\ input.patterns = <<<<97, 97, 98>>, <<98>>>>
    /\ \E s, u \in 1..(Len(ac.goto) - 1) :
          /\ PathOf(ac.goto, s) = <<97, 97, 98>>
          /\ PathOf(ac.goto, u) = <<98>>
          /\ ac.fail[s + 1] = u

(***************************************************************************)
(* The lookups as calls on the index: the fields after the call and the    *)
(* result.  The containers a lookup reads are dicts, defaultdicts and      *)
(* lists; d.get(key, default), "key in d" and indexing a list write        *)
(* nothing, d[key] on a defaultdict files a missing key.                   *)
(***************************************************************************)

\* d[key] on a defaultdict(set).
DefaultDictItem(d, key, default) ==
    [dict |-> IF key \in DOMAIN d THEN d ELSE DictPut(d, key, default),
     value |-> Get(d, key, default)]

\* The key is read with d[key] on a defaultdict (or with d.setdefault).
DictGetCall_filing(d, key, default) == DefaultDictItem(d, key, default)

\* d.get(key, default)
DictGetCall(d, key, default) == [dict |-> d, value |-> Get(d, key, default)]

INV_lookup_call(self, term) ==
    LET got == DictGetCall(self.postings, Lower(term), {})
    IN  [self |-> [self EXCEPT !.postings = got.dict], result |-> got.value]

\* Both phases read self._bits and self._documents only.
BL_lookup_call(self, term) == [self |-> self, result |-> BL_lookup(self, term)]

\* The postings after the intersection loop: "gram not in self._postings"
\* guards each self._postings[gram].
RECURSIVE KG_intersect_call(_, _, _, _)
KG_intersect_call(postings, query_grams, n, candidates) ==
    IF n > Len(query_grams) THEN postings
    ELSE LET gram == query_grams[n]
         IN  IF gram \notin DOMAIN postings THEN postings
             ELSE LET item == DefaultDictItem(postings, gram, {})
                      narrowed == IF n = 1 THEN item.value ELSE candidates \cap item.value
                  IN  IF narrowed = {} THEN item.dict
                      ELSE KG_intersect_call(item.dict, query_grams, n + 1, narrowed)

KG_lookup_call(self, term) ==
    LET term_lower == Lower(term)
    IN  IF Len(term_lower) < self.k
        THEN LET got == DictGetCall(self.postings, term_lower, {})
             IN  [self |-> [self EXCEPT !.postings = got.dict], result |-> got.value]
        ELSE [self |-> [self EXCEPT !.postings =
                           KG_intersect_call(self.postings,
                                             KG_query_grams(term_lower, self.k), 1, {})],
              result |-> KG_lookup(self, term)]

\* _find_node returns None at a missing child and creates none;
\* _collect_all_docs fills a new set.
TR_lookup_call(self, term) == [self |-> self, result |-> TR_lookup(self, term)]

KMP_lookup_call(self, term, doc_id) ==
    LET pat == Lower(term)
    IN  IF pat = <<>> THEN [self |-> self, result |-> <<>>]
        ELSE LET got == DictGetCall(self.texts, doc_id, <<>>)
             IN  [self |-> [self EXCEPT !.texts = got.dict],
                  result |-> KMP_kmp_all(got.value, pat)]

\* The bounds and the collection loop index lists only.
LS_lookup_call(self, term, doc_id) ==
    [self |-> self, result |-> LS_lookup(self, term, doc_id)]

AC_lookup_call(self, term, doc_id) ==
    LET got == DictGetCall(self.doc_texts, doc_id, <<>>)
    IN  [self |-> [self EXCEPT !.doc_texts = got.dict],
         result |-> find_substring_positions(got.value, Lower(term))]

\* The scan reads _goto, _fail, _out and _patterns by "in", get and index.
AC_match_call(self, doc_id) ==
    LET got == DictGetCall(self.doc_texts, doc_id, <<>>)
    IN  [self |-> [self EXCEPT !.doc_texts = got.dict],
         result |-> IF got.value = <<>> \/ self.patterns = <<>> THEN <<>>
                    ELSE AC_match_loop(got.value, 0, 0, <<>>)]

(***************************************************************************)
(* One index of any of the seven kinds under its writes and its lookups.   *)
(***************************************************************************)
InitReadOnly ==
    \/ InitKMP
    \/ InitAC
    \/ InitLS
    \/ InitKGram
    \/ InitTrie
    \/ InitExact /\ bloom.size = MaxSize /\ bloom.num_hashes = 1

ReadOnlyCorpora == RawCorpora(Alphabet, 1)

ReadOnlyLsCorpora ==
    {<<>>, << <<"d0", <<65, 98>>>> >>, << <<"d0", <<97>>>>, <<"d1", <<98>>>> >>}

\* The empty term, Ab, ab, b, ba.
ReadOnlyTerms == ExactStrings \cup {<<>>, <<98, 97>>}

Call_InvertedIndex_lookup_term(term) ==
    LET done == INV_lookup_call(inverted, term)
    IN  /\ inverted' = done.self
        /\ ret' = [op |-> "InvertedIndex.lookup_term", term |-> term, result |-> done.result]
        /\ UNCHANGED <<kmp, ac, logsq, sai, kgram, bloom, digest, trie, engine, input>>

Call_BloomFilterIndex_lookup_term(term) ==
    LET done == BL_lookup_call(bloom, term)
    IN  /\ bloom' = done.self
        /\ ret' = [op |-> "BloomFilterIndex.lookup_term", term |-> term, result |-> done.result]
        /\ UNCHANGED <<kmp, ac, logsq, sai, kgram, inverted, digest, trie, engine, input>>

Call_KGramIndex_lookup_term(term) ==
    LET done == KG_lookup_call(kgram, term)
    IN  /\ kgram' = done.self
        /\ ret' = [op |-> "KGramIndex.lookup_term", term |-> term, result |-> done.result]
        /\ UNCHANGED <<kmp, ac, logsq, sai, inverted, bloom, digest, trie, engine, input>>

Call_TrieIndex_lookup_term(term) ==
    LET done == TR_lookup_call(trie, term)
    IN  /\ trie' = done.self
        /\ ret' = [op |-> "TrieIndex.lookup_term", term |-> term, result |-> done.result]
        /\ UNCHANGED <<kmp, ac, logsq, sai, kgram, inverted, bloom, digest, engine, input>>

Call_KMP_lookup_term(term, doc_id) ==
    LET done == KMP_lookup_call(kmp, term, doc_id)
    IN  /\ kmp' = done.self
        /\ ret' = [op |-> "KMP.lookup_term", term |-> term, doc_id |-> doc_id,
                   result |-> done.result]
        /\ UNCHANGED <<ac, logsq, sai, kgram, inverted, bloom, digest, trie, engine, input>>

Call_LS_lookup_term(term, doc_id) ==
    LET done == LS_lookup_call(logsq, term, doc_id)
    IN  /\ logsq' = done.self
        /\ ret' = [op |-> "SuffixArrayLogSq.lookup_term", term |-> term, doc_id |-> doc_id,
                   result |-> done.result]
        /\ UNCHANGED <<kmp, ac, sai, kgram, inverted, bloom, digest, trie, engine, input>>

Call_AC_lookup_term(term, doc_id) ==
    LET done == AC_lookup_call(ac, term, doc_id)
    IN  /\ ac' = done.self
        /\ ret' = [op |-> "AhoCorasick.lookup_term", term |-> term, doc_id |-> doc_id,
                   result |-> done.result]
        /\ UNCHANGED <<kmp, logsq, sai, kgram, inverted, bloom, digest, trie, engine, input>>

Call_AC_match(doc_id) ==
    LET done == AC_match_call(ac, doc_id)
    IN  /\ ac' = done.self
        /\ ret' = [op |-> "AhoCorasick.match", doc_id |-> doc_id, result |-> done.result]
        /\ UNCHANGED <<kmp, logsq, sai, kgram, inverted, bloom, digest, trie, engine, input>>

NextReadOnly ==
    \/ kmp # Absent /\ \E documents \in ReadOnlyCorpora : KMP_build(documents)
    \/ kmp # Absent /\ \E term \in ReadOnlyTerms, doc_id \in DocIds :
                           Call_KMP_lookup_term(term, doc_id)
    \/ logsq # Absent /\ \E documents \in ReadOnlyLsCorpora : LS_build(documents)
    \/ logsq # Absent /\ \E term \in ReadOnlyTerms, doc_id \in DocIds :
                             Call_LS_lookup_term(term, doc_id)
    \/ ac # Absent /\ \E documents \in ReadOnlyCorpora : AC_build(documents)
    \/ ac # Absent /\ \E patterns \in EnginePatternLists : AC_build_patterns(patterns)
    \/ ac # Absent /\ \E term \in ReadOnlyTerms, doc_id \in DocIds :
                          Call_AC_lookup_term(term, doc_id)
    \/ ac # Absent /\ \E doc_id \in DocIds : Call_AC_match(doc_id)
    \/ kgram # Absent /\ \E doc_id \in DocIds, tokens \in TokenSets(ExactStrings) :
                             KGram_add_document(doc_id, tokens)
    \/ kgram # Absent /\ \E term \in ReadOnlyTerms : Call_KGramIndex_lookup_term(term)
    \/ trie # Absent /\ \E doc_id \in DocIds, tokens \in TokenSets(ExactStrings) :
                            TrieIndex_add_document(doc_id, tokens)
    \/ trie # Absent /\ \E term \in ReadOnlyTerms : Call_TrieIndex_lookup_term(term)
    \/ inverted # Absent /\ \E doc_id \in DocIds, tokens \in TokenSets(ExactStrings) :
                                Exact_add_document(doc_id, tokens)
    \/ inverted # Absent /\ \E term \in ReadOnlyTerms : Call_InvertedIndex_lookup_term(term)
    \/ bloom # Absent /\ \E term \in ExactStrings : Call_BloomFilterIndex_lookup_term(term)

SpecReadOnly == InitReadOnly /\ [][NextReadOnly]_vars

LookupOps ==
    {"InvertedIndex.lookup_term", "BloomFilterIndex.lookup_term", "KGramIndex.lookup_term",
     "TrieIndex.lookup_term", "KMP.lookup_term", "SuffixArrayLogSq.lookup_term",
     "AhoCorasick.lookup_term", "AhoCorasick.match"}

\* The call recorded in r, made on the indexes as they are now.
CallAgain(r) ==
    CASE r.op = "InvertedIndex.lookup_term" -> INV_lookup_call(inverted, r.term)
      [] r.op = "BloomFilterIndex.lookup_term" -> BL_lookup_call(bloom, r.term)
      [] r.op = "KGramIndex.lookup_term" -> KG_lookup_call(kgram, r.term)
      [] r.op = "TrieIndex.lookup_term" -> TR_lookup_call(trie, r.term)
      [] r.op = "KMP.lookup_term" -> KMP_lookup_call(kmp, r.term, r.doc_id)
      [] r.op = "SuffixArrayLogSq.lookup_term" -> LS_lookup_call(logsq, r.term, r.doc_id)
      [] r.op = "AhoCorasick.lookup_term" -> AC_lookup_call(ac, r.term, r.doc_id)
      [] r.op = "AhoCorasick.match" -> AC_match_call(ac, r.doc_id)

\* The index the call recorded in r was made on.
IndexOf(r) ==
    CASE r.op = "InvertedIndex.lookup_term" -> inverted
      [] r.op = "BloomFilterIndex.lookup_term" -> bloom
      [] r.op = "KGramIndex.lookup_term" -> kgram
      [] r.op = "TrieIndex.lookup_term" -> trie
      [] r.op \in {"KMP.lookup_term"} -> kmp
      [] r.op = "SuffixArrayLogSq.lookup_term" -> logsq
      [] r.op \in {"AhoCorasick.lookup_term", "AhoCorasick.match"} -> ac

\* C24: a lookup_term (or match) step leaves every field of every index as
\* it was, also when the term, gram or document is not in the index, and the
\* same call made again returns the same result and again changes nothing.
C24_LookupsReadOnly ==
    [][ret'.op \in LookupOps =>
          /\ <<kmp, ac, logsq, kgram, inverted, bloom, trie>>'
                = <<kmp, ac, logsq, kgram, inverted, bloom, trie>>
          /\ CallAgain(ret)'.result = ret'.result
          /\ CallAgain(ret)'.self = IndexOf(ret)']_vars

\* A k-gram lookup of a term with a gram that is not indexed, on an index
\* that holds a document.
C24_Witness ==
    /\ ret.op = "KGramIndex.lookup_term"
    /\ kgram.k = 2
    /\ ret.term = <<98, 97>>
    /\ kgram.documents # <<>>
    /\ ret.term \notin DOMAIN kgram.postings
    /\ ret.result = {}

\* A trie lookup that falls off the trie, and an inverted-index lookup of a
\* term without postings.
C24_WitnessTrie ==
    /\ ret.op = "TrieIndex.lookup_term"
    /\ ret.term = <<98, 97>>
    /\ <<98>> \in DOMAIN trie.root
    /\ ret.term \notin DOMAIN trie.root

C24_WitnessInverted ==
    /\ ret.op = "InvertedIndex.lookup_term"
    /\ inverted.postings # <<>>
    /\ Lower(ret.term) \notin DOMAIN inverted.postings

\* A lookup_term of a document id that is not in the corpus.
C24_WitnessKmp ==
    /\ ret.op = "KMP.lookup_term"
    /\ ret.term # <<>>
    /\ kmp.texts # <<>>
    /\ ret.doc_id \notin DOMAIN kmp.texts

(***************************************************************************)
(* The rank-doubling loops round by round                                  *)
(* (suffix_array_logsq.py:65-84, suffix_array.py:89-108).  logsq and sai   *)
(* hold the locals of the loop: sa, rank, the scratch list, k, and done    *)
(* once the loop has left through break.                                   *)
(***************************************************************************)

\* sa = list(range(n)); rank = [ord(c) for c in text]; tmp_rank = [0] * n; k = 1
LS_loop_entry(text) ==
    [sa |-> [i \in 1..Len(text) |-> i - 1], rank |-> text,
     tmp_rank |-> [i \in 1..Len(text) |-> 0], k |-> 1, done |-> FALSE]

\* One pass through the body of "while True" of _build_suffix_array.
LS_round(self) ==
    LET n == Len(self.sa)
        sorted == StableSort(self.sa, [i \in 0..(n - 1) |-> LS_pair(self.rank, i, self.k, n)])
        ranked == LS_rank_pass(sorted, self.rank,
                               [self.tmp_rank EXCEPT ![sorted[1] + 1] = 0], self.k, 1)
        stop == ranked[sorted[n] + 1] = n - 1
    IN  [sa |-> sorted, rank |-> ranked, tmp_rank |-> self.rank,
         k |-> IF stop THEN self.k ELSE 2 * self.k, done |-> stop]

SAI_loop_entry(text) ==
    [sa |-> [i \in 1..Len(text) |-> i - 1], rank |-> text,
     tmp |-> [i \in 1..Len(text) |-> 0], k |-> 1, done |-> FALSE]

\* One pass through the body of "while True" of _rebuild_suffix_array.
SAI_round(self) ==
    LET n == Len(self.sa)
        sorted == StableSort(self.sa, [i \in 0..(n - 1) |-> SAI_pair(self.rank, i, self.k, n)])
        tmp1 == SAI_rank_pass(sorted, self.rank, [self.tmp EXCEPT ![sorted[1] + 1] = 0],
                              self.k, 1)
        stop == tmp1[sorted[n] + 1] = n - 1
    IN  [sa |-> sorted, rank |-> tmp1, tmp |-> tmp1,
         k |-> IF stop THEN self.k ELSE 2 * self.k, done |-> stop]

\* The non-empty texts over a and b of up to MaxConcatLen characters.
DoublingTexts == {t \in SeqsUpTo({97, 98}, MaxConcatLen) : t # <<>>}

InitDoubling ==
    /\ input \in {[text |-> t] : t \in DoublingTexts}
    /\ logsq = LS_loop_entry(input.text)
    /\ sai = SAI_loop_entry(input.text)
    /\ kmp = Absent /\ ac = Absent /\ kgram = Absent
    /\ inverted = Absent /\ bloom = Absent /\ digest = Absent /\ trie = Absent /\ engine = Absent
    /\ ret = NoCall

LS_doubling_round ==
    /\ ~logsq.done
    /\ logsq' = LS_round(logsq)
    /\ ret' = [op |-> "SuffixArrayLogSq._build_suffix_array"]
    /\ UNCHANGED <<kmp, ac, sai, kgram, inverted, bloom, digest, trie, engine, input>>

SAI_doubling_round ==
    /\ ~sai.done
    /\ sai' = SAI_round(sai)
    /\ ret' = [op |-> "SuffixArrayIndex._rebuild_suffix_array"]
    /\ UNCHANGED <<kmp, ac, logsq, kgram, inverted, bloom, digest, trie, engine, input>>

NextDoubling == LS_doubling_round \/ SAI_doubling_round

SpecDoubling == InitDoubling /\ [][NextDoubling]_vars

\* (rank[i], rank[i + k] if i + k < n else -1)
RankPair(rank, i, k) == <<rank[i + 1], IF i + k < Len(rank) THEN rank[i + k + 1] ELSE -1>>

\* One round from the locals before to the locals after: the suffixes are
\* sorted by their pairs; along that order equal pairs get equal new ranks
\* and unequal pairs strictly increasing ones; the loop leaves exactly when
\* the last sorted suffix has rank n - 1, that is when all ranks are
\* distinct; a round with k >= n leaves.
RoundIsRight(before, after) ==
    LET n == Len(before.sa)
        pair == [i \in 0..(n - 1) |-> RankPair(before.rank, i, before.k)]
    IN  /\ Range(after.sa) = 0..(n - 1) /\ Len(after.sa) = n
        /\ \A i \in 1..(n - 1) :
              /\ ~PairLess(pair[after.sa[i + 1]], pair[after.sa[i]])
              /\ pair[after.sa[i + 1]] = pair[after.sa[i]]
                    => after.rank[after.sa[i + 1] + 1] = after.rank[after.sa[i] + 1]
              /\ pair[after.sa[i + 1]] # pair[after.sa[i]]
                    => after.rank[after.sa[i + 1] + 1] > after.rank[after.sa[i] + 1]
        /\ after.done <=> after.rank[after.sa[n] + 1] = n - 1
        /\ after.done <=> Cardinality(Range(after.rank)) = n
        /\ before.k >= n => after.done
        /\ ~after.done => after.k = 2 * before.k

\* C25: for every non-empty text, every round of both rank-doubling loops
\* ranks as stated and leaves exactly when all ranks are distinct; a round
\* that does not leave doubles k and a round with k >= n leaves, so each loop
\* ends within the rounds k = 1, 2, 4, ... up to the first k >= n.
C25_DoublingTerminates ==
    [][/\ logsq' # logsq => RoundIsRight(logsq, logsq')
       /\ sai' # sai => RoundIsRight(sai, sai')]_vars

\* Both loops have left after three rounds on aaaaa (k = 1, 2, 4).
C25_Witness ==
    /\ input.text = <<97, 97, 97, 97, 97>>
    /\ logsq.done /\ sai.done
    /\ logsq.k = 4 /\ sai.k = 4
    /\ logsq.sa = <<4, 3, 2, 1, 0>>

\* On a text of one character the first round has k >= n and leaves.
C25_WitnessOne ==
    /\ Len(input.text) = 1
    /\ logsq.done /\ sai.done
    /\ logsq.k = 1

(***************************************************************************)
(* SearchEngine.build over an iterable that raises (src/src/engine.py:     *)
(* 27-37): the loop has taken yielded items when the exception leaves      *)
(* build, before self._index.build and before self._built = True.          *)
(***************************************************************************)
SearchEngine_build_raising(documents, yielded) ==
    LET acc == SE_build(engine, SubSeq(documents, 1, yielded))
    IN  /\ engine' = [engine EXCEPT !.documents = acc.documents,
                                    !.normalized_texts = acc.normalized_texts]
        /\ ret' = [op |-> "SearchEngine.build", raised |-> "Exception"]
        /\ UNCHANGED <<kmp, ac, logsq, sai, kgram, inverted, bloom, digest, trie, input>>

NextBuildFail ==
    \/ \E documents \in EngineCorpora : SearchEngine_build(documents)
    \/ \E documents \in EngineCorpora, yielded \in 0..MaxDocs :
          yielded <= Len(documents) /\ SearchEngine_build_raising(documents, yielded)
    \/ \E query \in {<<97>>, <<97, 98>>} : SearchEngine_search(query, ModeAnd, NoneArg)

SpecBuildFail == InitEngine /\ [][NextBuildFail]_vars

\* C26: a build that raises leaves the document store, the normalized texts
\* and the built flag of the engine as they were before the call.
C26_BuildAllOrNothing ==
    [][(ret'.op = "SearchEngine.build" /\ Raised(ret') # "none") =>
          /\ engine'.documents = engine.documents
          /\ engine'.normalized_texts = engine.normalized_texts
          /\ engine'.built = engine.built]_vars

(***************************************************************************)
(* AhoCorasick.match: what it reports                                      *)
(* (src/src/indexes/aho_corasick.py:75-90)                                 *)
(***************************************************************************)

\* Every reported pair is an occurrence of a lowercased non-empty pattern of
\* the last build_patterns call in the lowercased text, and the pairs come
\* in non-decreasing order of end position.
MatchPairsAreOccurrences ==
    LET text == BuiltText(ret.doc_id)
        pats == {Lower(input.patterns[n]) : n \in DOMAIN input.patterns} \ {<<>>}
        last(pair) == pair[2] + Len(pair[1]) - 1
    IN  /\ \A n \in DOMAIN ret.result :
              LET p == ret.result[n][1]
                  s == ret.result[n][2]
              IN  /\ p \in pats
                  /\ 0 <= s
                  /\ s + Len(p) <= Len(text)
                  /\ SubSeq(text, s + 1, s + Len(p)) = p
        /\ \A m, n \in DOMAIN ret.result : m < n => last(ret.result[m]) <= last(ret.result[n])

\* C27 as stated: match is sound and ordered, and for a pattern list without
\* duplicates no pair is reported twice.
C27_MatchSound ==
    ret.op = "AhoCorasick.match" =>
        /\ MatchPairsAreOccurrences
        /\ NoDuplicates(input.patterns) => NoDuplicates(ret.result)

\* C27 with the patterns compared as build_patterns stores them: no pair is
\* reported twice when the non-empty patterns are distinct after lowercasing.
C27_MatchSoundLowercased ==
    ret.op = "AhoCorasick.match" =>
        /\ MatchPairsAreOccurrences
        /\ NoDuplicates(SelectSeq([n \in DOMAIN input.patterns |-> Lower(input.patterns[n])],
                                  LAMBDA p : p # <<>>))
              => NoDuplicates(ret.result)

\* The patterns a and ab on the text Ab: two pairs at offset 0, in the order
\* of their end positions.
C27_Witness ==
    /\ ret.op = "AhoCorasick.match"
    /\ input.patterns = <<<<97, 98>>, <<97>>>>
    /\ BuiltText(ret.doc_id) = <<97, 98>>
    /\ ret.result = << <<<<97>>, 0>>, <<<<97, 98>>, 0>> >>

(***************************************************************************)
(* The three Matcher backends on one corpus                                *)
(* (array_scan.py:20-24, aho_corasick.py:93-97,                            *)
(* suffix_array_logsq.py:86-102)                                           *)
(***************************************************************************)
StrictlyAscending(s) == \A i, j \in DOMAIN s : i < j => s[i] < s[j]

\* C28: for a non-empty term, SuffixArrayLogSq.lookup_term returns the
\* offsets in strictly ascending order, the list that KMP.lookup_term and
\* AhoCorasick.lookup_term return when built on the same corpus.
C28_IdenticalOffsetLists ==
    (ret.op = "SuffixArrayLogSq.lookup_term" /\ ret.term # <<>>) =>
        LET by_kmp == KMP_lookup(KMP_built(KMP_init, input.documents), ret.term, ret.doc_id)
            by_ac == AC_lookup(AC_built(AC_init, input.documents), ret.term, ret.doc_id)
        IN  /\ StrictlyAscending(by_kmp) /\ StrictlyAscending(by_ac) /\ by_kmp = by_ac
            /\ StrictlyAscending(ret.result)
            /\ ret.result = by_kmp

(***************************************************************************)
(* Concurrent lookup_term calls on one SuffixArrayIndex with a rebuild     *)
(* pending (src/src/indexes/suffix_array.py:51-151), no add_document       *)
(* running.  ret holds the frame of each thread: its place in lookup_term  *)
(* and its locals.  A step is one read or one assignment of a field of     *)
(* the index.  The token sets are not modified while the calls run, so     *)
(* every rebuild iterates them in the same order, input.order.             *)
(***************************************************************************)
Threads == {"t1", "t2"}

MaxCalls == 3

\* The assignments of the flag ahead of the fields.
SAI_rebuild_steps_flag_first ==
    <<"needs_rebuild", "text", "position_map", "sort", "suffix_array">>

\* _rebuild_suffix_array past the two loops: self._text = ...,
\* self._position_map = ..., the construction of sa from self._text,
\* self._suffix_array = sa, self._needs_rebuild = False.
SAI_rebuild_steps == <<"text", "position_map", "sort", "suffix_array", "needs_rebuild">>

IdleFrame ==
    [pc |-> "idle", op |-> "none", term |-> <<>>, todo |-> <<>>, text_parts |-> <<>>, position_map |-> <<>>,
     sa |-> <<>>, left |-> 0, right |-> 0, raised |-> "none", result |-> {}]

\* ab, ba
ConcurrentTokens == {<<97, 98>>, <<98, 97>>}

\* a, ba, Bb
ConcurrentTerms == {<<97>>, <<98, 97>>, <<66, 98>>}

\* The indexes with a rebuild pending: a first document added to a new
\* index, or a document added (or given new tokens) after a lookup has
\* rebuilt the index for d0.
PendingIndexes ==
    LET fresh == {SAI_init}
        looked == {SAI_rebuild_suffix_array(SAI_add_document(SAI_init, "d0", tokens), order) :
                      tokens \in {{<<97, 98>>}}, order \in {<< <<<<97, 98>>>> >>}}
    IN  {SAI_add_document(self, doc_id, tokens) :
            self \in fresh \cup looked, doc_id \in DocIds,
            tokens \in TokenSets(ConcurrentTokens) \ {{}}}

InitConcurrent ==
    /\ sai \in PendingIndexes
    /\ \E order \in TokenOrders(sai.documents) :
          input = [initial |-> sai, order |-> order, calls |-> 0]
    /\ ret = [t \in Threads |-> IdleFrame]
    /\ kmp = Absent /\ ac = Absent /\ logsq = Absent /\ kgram = Absent
    /\ inverted = Absent /\ bloom = Absent /\ digest = Absent /\ trie = Absent /\ engine = Absent

OthersUnchanged == UNCHANGED <<kmp, ac, logsq, kgram, inverted, bloom, digest, trie, engine>>

\* A thread enters lookup_term(term).
Thread_call(t, term) ==
    /\ ret[t].pc \in {"idle", "done"}
    /\ input.calls < MaxCalls
    /\ ret' = [ret EXCEPT ![t] = [IdleFrame EXCEPT !.pc = "check", !.op = "lookup_term",
                                                   !.term = term]]
    /\ input' = [input EXCEPT !.calls = @ + 1]
    /\ UNCHANGED sai /\ OthersUnchanged

\* A thread enters get_statistics().
Thread_call_statistics(t) ==
    /\ ret[t].pc \in {"idle", "done"}
    /\ input.calls < MaxCalls
    /\ ret' = [ret EXCEPT ![t] = [IdleFrame EXCEPT !.pc = "check", !.op = "get_statistics"]]
    /\ input' = [input EXCEPT !.calls = @ + 1]
    /\ UNCHANGED sai /\ OthersUnchanged

\* Where a call goes on once the index needs no rebuild.
AfterRebuild(op) == IF op = "get_statistics" THEN "statistics" ELSE "search"

\* sum(len(tokens) for tokens in self._documents.values())
RECURSIVE SAI_count_tokens(_)
SAI_count_tokens(documents) ==
    IF documents = <<>> THEN 0
    ELSE Cardinality(Head(documents)[2]) + SAI_count_tokens(Tail(documents))

\* The dictionary get_statistics returns.
SAI_statistics(self) ==
    [num_documents |-> Len(self.documents),
     text_length |-> Len(self.text),
     suffix_array_length |-> Len(self.suffix_array),
     num_unique_tokens |-> SAI_count_tokens(self.documents)]

\* if self._needs_rebuild: the thread enters _rebuild_suffix_array and runs
\* its two loops over self._documents into its locals.
Thread_check(t) ==
    /\ ret[t].pc = "check"
    /\ ret' = [ret EXCEPT ![t] =
                 IF sai.needs_rebuild
                 THEN LET acc == SAI_concat(sai.documents, input.order,
                                            [text_parts |-> <<>>, position_map |-> <<>>])
                      IN  [@ EXCEPT !.pc = "rebuild", !.todo = SAI_rebuild_steps,
                                    !.text_parts = acc.text_parts,
                                    !.position_map = acc.position_map]
                 ELSE [@ EXCEPT !.pc = AfterRebuild(ret[t].op)]]
    /\ UNCHANGED <<sai, input>> /\ OthersUnchanged

\* The next assignment of _rebuild_suffix_array.
Thread_rebuild_step(t) ==
    /\ ret[t].pc = "rebuild"
    /\ LET step == Head(ret[t].todo)
           rest == Tail(ret[t].todo)
       IN  /\ sai' = CASE step = "text" -> [sai EXCEPT !.text = ret[t].text_parts]
                       [] step = "position_map" ->
                             [sai EXCEPT !.position_map = ret[t].position_map]
                       [] step = "sort" -> sai
                       [] step = "suffix_array" -> [sai EXCEPT !.suffix_array = ret[t].sa]
                       [] step = "needs_rebuild" -> [sai EXCEPT !.needs_rebuild = FALSE]
           /\ ret' = [ret EXCEPT ![t] =
                        [@ EXCEPT !.todo = rest,
                                  !.pc = IF rest = <<>> THEN AfterRebuild(ret[t].op)
                                         ELSE "rebuild",
                                  !.sa = IF step # "sort" THEN @
                                         ELSE IF sai.text = <<>> THEN <<>>
                                         ELSE SAI_suffix_array(sai.text)]]
    /\ UNCHANGED input /\ OthersUnchanged

\* if not self._suffix_array or not term: return set(); left = ...
Thread_search_left(t) ==
    /\ ret[t].pc = "search"
    /\ LET term_lower == Lower(ret[t].term)
           left == SAI_binary_search_left(sai, term_lower)
       IN  ret' = [ret EXCEPT ![t] =
                     IF sai.suffix_array = <<>> \/ ret[t].term = <<>>
                     THEN [@ EXCEPT !.pc = "done", !.result = {}]
                     ELSE IF left = Len(sai.suffix_array)
                          THEN [@ EXCEPT !.pc = "done", !.left = left, !.result = {}]
                          ELSE [@ EXCEPT !.pc = "right", !.left = left]]
    /\ UNCHANGED <<sai, input>> /\ OthersUnchanged

\* right = self._binary_search_right(term_lower)
Thread_search_right(t) ==
    /\ ret[t].pc = "right"
    /\ ret' = [ret EXCEPT ![t] =
                 [@ EXCEPT !.pc = "collect",
                           !.right = SAI_binary_search_right(sai, Lower(ret[t].term))]]
    /\ UNCHANGED <<sai, input>> /\ OthersUnchanged

\* The candidate loop and the verification; self._suffix_array[i] past the
\* end of the list raises IndexError.
Thread_collect(t) ==
    /\ ret[t].pc = "collect"
    /\ ret' = [ret EXCEPT ![t] =
                 IF ret[t].right > Len(sai.suffix_array)
                 THEN [@ EXCEPT !.pc = "done", !.raised = "IndexError"]
                 ELSE [@ EXCEPT !.pc = "done",
                                !.result = SAI_verify(SAI_candidates(sai, ret[t].left,
                                                                     ret[t].right),
                                                      Lower(ret[t].term))]]
    /\ UNCHANGED <<sai, input>> /\ OthersUnchanged

\* The return statement of get_statistics.
Thread_statistics(t) ==
    /\ ret[t].pc = "statistics"
    /\ ret' = [ret EXCEPT ![t] = [@ EXCEPT !.pc = "done", !.result = SAI_statistics(sai)]]
    /\ UNCHANGED <<sai, input>> /\ OthersUnchanged

NextConcurrent ==
    \E t \in Threads :
        \/ \E term \in ConcurrentTerms : Thread_call(t, term)
        \/ Thread_call_statistics(t)
        \/ Thread_check(t)
        \/ Thread_rebuild_step(t)
        \/ Thread_search_left(t)
        \/ Thread_search_right(t)
        \/ Thread_collect(t)
        \/ Thread_statistics(t)

SpecConcurrent == InitConcurrent /\ [][NextConcurrent]_vars

\* C29: every concurrent call returns the set of a sequential lookup_term on
\* the index, and a call past the rebuild check searches with the text, the
\* position map and the suffix array of the current documents.
C29_ConcurrentLookupsAgree ==
    LET current == SAI_rebuild_suffix_array(input.initial, input.order)
    IN  \A t \in Threads :
            /\ ret[t].pc = "done" =>
                  /\ ret[t].raised = "none"
                  /\ ret[t].result = IF ret[t].op = "get_statistics"
                                     THEN SAI_statistics(current)
                                     ELSE SAI_search(current, ret[t].term)
            /\ ret[t].pc \in {"search", "right", "collect", "statistics"} =>
                  /\ sai.text = current.text
                  /\ sai.position_map = current.position_map
                  /\ sai.suffix_array = current.suffix_array

\* Two rebuilds at once: t1 has returned {d1} for ba after its own rebuild
\* while t2, which entered before the flag was cleared, is between its
\* assignments of the text and of the suffix array.
C29_Witness ==
    /\ ret["t1"].pc = "done"
    /\ ret["t1"].term = <<98, 97>>
    /\ ret["t1"].result = {"d1"}
    /\ ret["t2"].pc = "rebuild"
    /\ Len(ret["t2"].todo) \in {2, 3, 4}
    /\ input.initial.suffix_array # <<>>

\* A call that found the flag clear searches while the other thread is
\* still in its rebuild.
C29_WitnessSearch ==
    /\ ret["t1"].pc = "collect"
    /\ ret["t1"].todo = <<>> /\ ret["t1"].text_parts = <<>>
    /\ ret["t2"].pc = "rebuild"

\* get_statistics returns while the other thread is still in its rebuild.
C29_WitnessStatistics ==
    /\ ret["t1"].pc = "done"
    /\ ret["t1"].op = "get_statistics"
    /\ ret["t1"].result.suffix_array_length > 0
    /\ ret["t2"].pc = "rebuild"

(***************************************************************************)
(* The query command of the CLI (src/scripts/cli.py:120-168, 227-252) on   *)
(* one set of records loaded twice: kmp is the index of a session with     *)
(* backend kmp, ac the matcher of a session with backend ac.               *)
(* input.records is st.records, a list of <<doc_id, text>> pairs.          *)
(***************************************************************************)
Comma == 44

\* raw.split(','): the pieces between the commas, empty pieces included.
RECURSIVE CLI_split(_, _, _)
CLI_split(raw, piece, pieces) ==
    IF raw = <<>> THEN Append(pieces, piece)
    ELSE IF Head(raw) = Comma THEN CLI_split(Tail(raw), <<>>, Append(pieces, piece))
         ELSE CLI_split(Tail(raw), Append(piece, Head(raw)), pieces)

\* p.strip()
RECURSIVE CLI_strip(_)
CLI_strip(p) ==
    IF p = <<>> THEN <<>>
    ELSE IF Head(p) = Space THEN CLI_strip(Tail(p))
    ELSE IF p[Len(p)] = Space THEN CLI_strip(SubSeq(p, 1, Len(p) - 1))
    ELSE p

\* [p.strip() for p in raw.split(',') if p.strip()]
RECURSIVE CLI_stripped(_)
CLI_stripped(pieces) ==
    IF pieces = <<>> THEN <<>>
    ELSE LET p == CLI_strip(Head(pieces))
         IN  (IF p = <<>> THEN <<>> ELSE <<p>>) \o CLI_stripped(Tail(pieces))

\* parse_patterns on args holding --patterns raw and, unless mode_arg is
\* None, --mode mode_arg.
parse_patterns(raw, mode_arg) ==
    LET pats == CLI_stripped(CLI_split(raw, <<>>, <<>>))
        mode == IF mode_arg = NoneArg THEN ModeOr ELSE mode_arg
    IN  IF pats = <<>> THEN [raised |-> "ValueError", pats |-> <<>>, mode |-> mode]
        ELSE IF mode \notin {ModeAnd, ModeOr}
             THEN [raised |-> "ValueError", pats |-> pats, mode |-> mode]
             ELSE [raised |-> "none", pats |-> pats, mode |-> mode]

\* hits = [bool(index_obj.lookup_term(pattern, doc_id)) for pattern in patterns]
CLI_hits(self, patterns, doc_id) ==
    [i \in 1..Len(patterns) |-> KMP_lookup(self, patterns[i], doc_id) # <<>>]

RECURSIVE run_index_query(_, _, _, _)
run_index_query(self, records, patterns, mode) ==
    IF records = <<>> THEN <<>>
    ELSE LET doc_id == Head(records)[1]
             hits == CLI_hits(self, patterns, doc_id)
             match_all == mode = ModeAnd
             all == \A i \in DOMAIN hits : hits[i]
             any == \E i \in DOMAIN hits : hits[i]
         IN  (IF (match_all /\ all) \/ (~match_all /\ any) THEN <<doc_id>> ELSE <<>>)
             \o run_index_query(self, Tail(records), patterns, mode)

\* The loop of run_ac_query, after ac.build_patterns(patterns).
RECURSIVE CLI_ac_loop(_, _, _, _)
CLI_ac_loop(self, records, patterns, mode) ==
    IF records = <<>> THEN <<>>
    ELSE LET doc_id == Head(records)[1]
             pairs == AC_match_call(self, doc_id).result
             found == {pairs[i][1] : i \in DOMAIN pairs}
             ok == IF mode = ModeAnd THEN \A i \in DOMAIN patterns : patterns[i] \in found
                   ELSE found # {}
         IN  (IF ok THEN <<doc_id>> ELSE <<>>)
             \o CLI_ac_loop(self, Tail(records), patterns, mode)

\* '', a, ab
CliTexts == {<<>>, <<97>>, <<97, 98>>}

\* The record lists load_records returns: at least one record.
CliRecords ==
    {<< <<d, t>> >> : d \in {"d0"}, t \in CliTexts}
    \cup {<< <<d[1], <<97>>>>, <<d[2], t>> >> :
             d \in {<<"d0", "d1">>, <<"d1", "d0">>}, t \in CliTexts}

MaxRawLen == 2

\* The texts after --patterns: a, A and commas, and  a,A  Ab  " a"  b,a
CliRaws ==
    SeqsUpTo({97, 65, Comma}, MaxRawLen)
    \cup {<<97, Comma, 65>>, <<65, 98>>, <<Space, 97>>, <<98, Comma, 97>>}

\* No --mode, and, or, x
CliModeArgs == {NoneArg, ModeAnd, ModeOr, <<120>>}

InitCli ==
    /\ \E records \in CliRecords :
          LET documents == [d \in {records[i][1] : i \in DOMAIN records} |->
                              LET i == CHOOSE i \in DOMAIN records : records[i][1] = d
                              IN  records[i][2]]
          IN  /\ input = [records |-> records]
              /\ kmp = KMP_built(KMP_init, documents)
              /\ ac = AC_built(AC_init, documents)
    /\ logsq = Absent /\ sai = Absent /\ kgram = Absent
    /\ inverted = Absent /\ bloom = Absent /\ digest = Absent /\ trie = Absent /\ engine = Absent
    /\ ret = NoCall

\* handle_query with backend kmp.
handle_query_kmp(raw, mode_arg) ==
    LET parsed == parse_patterns(raw, mode_arg)
    IN  /\ ret' = IF parsed.raised # "none"
                  THEN [op |-> "handle_query", backend |-> "kmp", raised |-> parsed.raised]
                  ELSE [op |-> "run_index_query", backend |-> "kmp", raised |-> "none",
                        patterns |-> parsed.pats, mode |-> parsed.mode,
                        matched |-> run_index_query(kmp, input.records, parsed.pats,
                                                    parsed.mode)]
        /\ UNCHANGED <<kmp, ac, logsq, sai, kgram, inverted, bloom, digest, trie, engine, input>>

\* handle_query with backend ac: run_ac_query compiles the patterns into
\* the matcher and scans the records with it.
handle_query_ac(raw, mode_arg) ==
    LET parsed == parse_patterns(raw, mode_arg)
        pats == AC_lower_patterns(parsed.pats)
        aut == AC_compile(pats)
    IN  /\ ac' = IF parsed.raised # "none" THEN ac
                 ELSE [ac EXCEPT !.patterns = pats, !.goto = aut.goto,
                                 !.fail = aut.fail, !.out = aut.out]
        /\ UNCHANGED <<kmp, logsq, sai, kgram, inverted, bloom, digest, trie, engine, input>>
        /\ ret' = IF parsed.raised # "none"
                  THEN [op |-> "handle_query", backend |-> "ac", raised |-> parsed.raised]
                  ELSE [op |-> "run_ac_query", backend |-> "ac", raised |-> "none",
                        patterns |-> parsed.pats, mode |-> parsed.mode,
                        matched |-> CLI_ac_loop(ac, input.records, parsed.pats,
                                                parsed.mode)']

NextCli ==
    \/ \E raw \in CliRaws, mode_arg \in CliModeArgs : handle_query_kmp(raw, mode_arg)
    \/ \E raw \in CliRaws, mode_arg \in CliModeArgs : handle_query_ac(raw, mode_arg)

SpecCli == InitCli /\ [][NextCli]_vars

\* C30: for the records, the mode and the patterns of a query, run_ac_query
\* returns the list of doc ids run_index_query returns over a KMP index.
C30_AcQueryMatchesIndexQuery ==
    ret.op = "run_ac_query" =>
        ret.matched = run_index_query(kmp, input.records, ret.patterns, ret.mode)

====
